---- MODULE Spec2Model ----
(***************************************************************************)
(* Model of the configuration codec of CavrocPebbl (src/src/utils.py):     *)
(* the ConfigBuilder line accumulator, its value formatter config_line,    *)
(* the field lookup / coercion layer (get_value, mapped_value) and the     *)
(* recursive section encoders.                                             *)
(*                                                                         *)
(* Python text is modelled by TLA+ strings (TLC evaluates Len, SubSeq and  *)
(* \o on strings).  A Python value is a record [t, b, i, s]: t is the      *)
(* type, and b, i, s carry the payload, see the constructors below.        *)
(***************************************************************************)
EXTENDS Integers, Sequences, FiniteSets, TLC

VARIABLES
    lines,   \* ConfigBuilder.lines, the accumulated text lines
    prefix,  \* ConfigBuilder.prefix
    call,    \* the last operation called, with its arguments
    ret      \* its outcome: [raised |-> BOOLEAN, v |-> returned value]

vars == <<lines, prefix, call, ret>>

(***************************************************************************)
(* Bounds of the model.                                                    *)
(***************************************************************************)
\* an appending operation is called on builders holding fewer than MaxLines lines
MaxLines == 2
\* most lines a builder holds when the formatter is applied to it
MaxBefore == 1
\* longest collection handed to a section encoder
MaxEntities == 2
\* longest field-mapping list handed to a section encoder
MaxTriples == 2

(***************************************************************************)
(* Text helpers (Python str methods).                                      *)
(***************************************************************************)
UpperLetters == "ABCDEFGHIJKLMNOPQRSTUVWXYZ"
LowerLetters == "abcdefghijklmnopqrstuvwxyz"
Digits == "0123456789"

Char(s, i) == SubSeq(s, i, i)

\* 0 when c does not occur in alphabet, else its 1-based position
IndexIn(c, alphabet) ==
    IF \E i \in 1..Len(alphabet) : Char(alphabet, i) = c
    THEN CHOOSE i \in 1..Len(alphabet) : Char(alphabet, i) = c
    ELSE 0

LowerChar(c) ==
    IF IndexIn(c, UpperLetters) > 0 THEN Char(LowerLetters, IndexIn(c, UpperLetters)) ELSE c

UpperChar(c) ==
    IF IndexIn(c, LowerLetters) > 0 THEN Char(UpperLetters, IndexIn(c, LowerLetters)) ELSE c

RECURSIVE Lower(_)
Lower(s) == IF s = "" THEN "" ELSE LowerChar(Head(s)) \o Lower(Tail(s))

\* sub in s
Contains(s, sub) ==
    \E i \in 1..(Len(s) - Len(sub) + 1) : SubSeq(s, i, i + Len(sub) - 1) = sub

StartsWith(s, p) == Len(s) >= Len(p) /\ SubSeq(s, 1, Len(p)) = p

EndsWith(s, p) == Len(s) >= Len(p) /\ SubSeq(s, Len(s) - Len(p) + 1, Len(s)) = p

\* s.lstrip(chars), s.rstrip(chars), s.strip(chars): chars is a string of characters
RECURSIVE LStrip(_, _)
LStrip(s, chars) ==
    IF s # "" /\ IndexIn(Head(s), chars) > 0 THEN LStrip(Tail(s), chars) ELSE s

RECURSIVE RStrip(_, _)
RStrip(s, chars) ==
    IF s # "" /\ IndexIn(Char(s, Len(s)), chars) > 0
    THEN RStrip(SubSeq(s, 1, Len(s) - 1), chars)
    ELSE s

Strip(s, chars) == RStrip(LStrip(s, chars), chars)

Whitespace == " "

\* s.replace(old, new) for a one-character old
RECURSIVE Replace(_, _, _)
Replace(s, old, new) ==
    IF s = "" THEN ""
    ELSE (IF Head(s) = old THEN new ELSE Head(s)) \o Replace(Tail(s), old, new)

RECURSIVE Zeros(_)
Zeros(n) == IF n <= 0 THEN "" ELSE "0" \o Zeros(n - 1)

\* str(n) of a natural number
RECURSIVE NatToStr(_)
NatToStr(n) ==
    IF n < 10 THEN Char(Digits, n + 1)
    ELSE NatToStr(n \div 10) \o Char(Digits, (n % 10) + 1)

IntToStr(n) == IF n < 0 THEN "-" \o NatToStr(-n) ELSE NatToStr(n)

IsDigits(s) == s # "" /\ \A i \in 1..Len(s) : IndexIn(Char(s, i), Digits) > 0

\* int(s) of a string of decimal digits
RECURSIVE DigitsToNat(_)
DigitsToNat(s) ==
    IF s = "" THEN 0
    ELSE 10 * DigitsToNat(SubSeq(s, 1, Len(s) - 1)) + (IndexIn(Char(s, Len(s)), Digits) - 1)

\* str(n) left-padded with zeros to the given width
PadZeros(n, width) == Zeros(width - Len(NatToStr(n))) \o NatToStr(n)


(***************************************************************************)
(* Python values.  [t, b, i, s]:                                           *)
(*   None                      t = "None"                                  *)
(*   bool                      t = "bool",  b the truth value              *)
(*   int                       t = "int",   i the number                   *)
(*   float                     t = "float", the decimal 0.s * 10^i that    *)
(*                             repr() prints (s: shortest digit string, no *)
(*                             leading or trailing zero, "0" for zero),    *)
(*                             negative when b                             *)
(*   str                       t = "str",   s the text                     *)
(*   member of a BubbleEnum    t = the class name, s the member name;      *)
(*                             b tells which copy of the class it belongs  *)
(*                             to, see ViaSrc below                        *)
(*   member of an IntEnum      t = "IntEnum", i its value                  *)
(***************************************************************************)
PyNone == [t |-> "None", b |-> FALSE, i |-> 0, s |-> ""]
PyBool(x) == [t |-> "bool", b |-> x, i |-> 0, s |-> ""]
PyInt(n) == [t |-> "int", b |-> FALSE, i |-> n, s |-> ""]
PyStr(x) == [t |-> "str", b |-> FALSE, i |-> 0, s |-> x]
PyFloat(neg, digits, decpt) == [t |-> "float", b |-> neg, i |-> decpt, s |-> digits]
PyIntEnum(n) == [t |-> "IntEnum", b |-> FALSE, i |-> n, s |-> ""]

\* utils.py imports the enum classes twice: FaultDirection at module level
\* through src.models, which takes them from the top-level module `enums`,
\* and FaultDirection / DomainType inside config_line and mapped_value from
\* the package module `src.enums`.  Python loads these as two modules with
\* two distinct class objects, so an enum member is an instance of exactly
\* one of them: ViaSrc (b = TRUE) marks a member of the src.enums class, the
\* other members are those the models carry.
PyEnum(cls, name, viaSrc) == [t |-> cls, b |-> viaSrc, i |-> 0, s |-> name]

\* members in declaration order
FaultDirection == <<"Top", "Down", "North", "South", "East", "West">>
DomainType == <<"Soil", "Rock">>
DensificationLevel == <<"No", "Minimum", "Intermediate", "Maximum">>

BubbleEnumClasses == {"FaultDirection", "DomainType", "DensificationLevel"}

Members(cls) ==
    CASE cls = "FaultDirection" -> FaultDirection
      [] cls = "DomainType" -> DomainType
      [] cls = "DensificationLevel" -> DensificationLevel

SeqIndex(seq, x) == CHOOSE k \in 1..Len(seq) : seq[k] = x

\* member.value, the db_value of the declaration
EnumValue(cls, name) ==
    CASE cls = "FaultDirection" -> Lower(name)
      [] cls = "DomainType" -> Lower(name)
      [] cls = "DensificationLevel" ->
           (CASE name = "No" -> "no_densification"
              [] name = "Minimum" -> "minimum_densification"
              [] name = "Intermediate" -> "internmediate_densification"
              [] name = "Maximum" -> "maximum_densification")

\* member.label
EnumLabel(cls, name) ==
    CASE cls = "FaultDirection" -> name
      [] cls = "DomainType" -> name
      [] cls = "DensificationLevel" -> name \o " Densification"

IsBubbleEnum(v) == v.t \in BubbleEnumClasses

\* isinstance(v, Enum)
IsEnum(v) == IsBubbleEnum(v) \/ v.t = "IntEnum"

\* BubbleEnum.numeric_value: 1-based position in the declaration
numeric_value(v) == SeqIndex(Members(v.t), v.s)

\* BubbleEnum.first_letter: str(self.value)[0].upper()
first_letter(v) == UpperChar(Char(EnumValue(v.t, v.s), 1))

\* hasattr(v, "letter"): no class of enums.py defines a `letter` attribute
\* (members carry value, label, name, numeric_value and first_letter only)
HasLetter(v) == FALSE

\* hasattr(v, "numeric_value")
HasNumericValue(v) == IsBubbleEnum(v)

\* bool(v)
Truthy(v) ==
    CASE v.t = "None" -> FALSE
      [] v.t = "bool" -> v.b
      [] v.t = "int" -> v.i # 0
      [] v.t = "IntEnum" -> v.i # 0
      [] v.t = "float" -> v.s # "0"
      [] v.t = "str" -> v.s # ""
      [] OTHER -> TRUE

(***************************************************************************)
(* repr of a float (CPython float_repr_style "short"): scientific notation *)
(* when the decimal point position is <= -4 or > 16, else fixed notation.  *)
(***************************************************************************)
FloatRepr(v) ==
    LET d == v.s
        decpt == v.i
        e == decpt - 1
        body ==
           IF decpt <= -4 \/ decpt > 16
           THEN Char(d, 1)
                \o (IF Len(d) > 1 THEN "." \o SubSeq(d, 2, Len(d)) ELSE "")
                \o "e" \o (IF e < 0 THEN "-" ELSE "+")
                \o PadZeros(IF e < 0 THEN -e ELSE e, 2)
           ELSE IF decpt <= 0
           THEN "0." \o Zeros(-decpt) \o d
           ELSE IF decpt >= Len(d)
           THEN d \o Zeros(decpt - Len(d)) \o ".0"
           ELSE SubSeq(d, 1, decpt) \o "." \o SubSeq(d, decpt + 1, Len(d))
    IN (IF v.b THEN "-" ELSE "") \o body

\* f"{x:.10f}" of a float below 1 in magnitude (decpt <= 0), the only ones the
\* formatter applies it to: ten decimals, rounded on the first dropped digit
\* (the inputs of the model contain no exact tie).
Format10f(v) ==
    LET frac == Zeros(-v.i) \o v.s
        kept == SubSeq(frac \o Zeros(10), 1, 10)
        dropped == IF Len(frac) > 10 THEN SubSeq(frac, 11, Len(frac)) ELSE ""
        up == dropped # "" /\ IndexIn(Char(dropped, 1), "56789") > 0
        n == DigitsToNat(kept) + (IF up THEN 1 ELSE 0)
    IN (IF v.b THEN "-" ELSE "") \o "0." \o PadZeros(n, 10)

\* float(s) of a string whose lower-case form starts with "1e-": [ok, f];
\* ok is FALSE when float(s) raises ValueError
ParseFloat(s) ==
    LET rest == SubSeq(s, 4, Len(s))
    IN IF IsDigits(rest)
       THEN [ok |-> TRUE, f |-> PyFloat(FALSE, "1", 1 - DigitsToNat(rest))]
       ELSE [ok |-> FALSE, f |-> PyNone]

\* str(v)
PyStrOf(v) ==
    CASE v.t = "None" -> "None"
      [] v.t = "bool" -> (IF v.b THEN "True" ELSE "False")
      [] v.t = "int" -> IntToStr(v.i)
      [] v.t = "IntEnum" -> IntToStr(v.i)
      [] v.t = "float" -> FloatRepr(v)
      [] v.t = "str" -> v.s
      [] OTHER -> v.t \o "." \o v.s


(***************************************************************************)
(* parse_enum (bubble_base.py), called by config_line with the src.enums   *)
(* copy of the class: the member found, else default.                      *)
(***************************************************************************)
parse_enum(cls, value, default) ==
    LET names == Members(cls)
        hits == {k \in 1..Len(names) :
                    /\ value.t = "str"
                    /\ \/ value.s = EnumValue(cls, names[k])
                       \/ value.s = names[k]
                       \/ value.s = EnumLabel(cls, names[k])}
        first == CHOOSE k \in hits : \A j \in hits : k <= j
        \* isinstance(value, int): bool is a subclass of int
        isInt == value.t \in {"int", "bool", "IntEnum"}
        idx == (IF value.t = "bool" THEN (IF value.b THEN 1 ELSE 0) ELSE value.i) - 1
    IN IF value = PyNone \/ value = PyStr("") THEN default
       ELSE IF value.t = cls /\ value.b THEN value
       ELSE IF hits # {} THEN PyEnum(cls, names[first], TRUE)
       ELSE IF isInt /\ 0 <= idx /\ idx < Len(names) THEN PyEnum(cls, names[idx + 1], TRUE)
       ELSE default

(***************************************************************************)
(* ConfigBuilder.config_line, rule by rule.                                *)
(***************************************************************************)
\* IntEnum members are replaced by their numeric value
UnwrapIntEnum(v) == IF v.t = "IntEnum" THEN PyInt(v.i) ELSE v

\* Octree_Mesh: textual true/false are flipped; the guard isinstance(value, str)
\* keeps booleans out, so `value is True` / `value is False` never hold
OctreeFlip(key, v) ==
    IF key = "Octree_Mesh" /\ v.t = "str"
    THEN IF Lower(v.s) = "true" THEN PyStr("no")
         ELSE IF Lower(v.s) = "false" THEN PyStr("yes")
         ELSE v
    ELSE v

direction_map ==
    [n \in {"Top", "Down", "North", "South", "East", "West",
            "top", "down", "north", "south", "east", "west"} |-> UpperChar(Char(n, 1))]

\* keys containing anisotropy_surface_normal_direction
AnisotropyDirection(key, v) ==
    IF Contains(key, "anisotropy_surface_normal_direction")
    THEN IF v.t = "str" /\ v.s \in DOMAIN direction_map THEN PyStr(direction_map[v.s])
         ELSE IF HasLetter(v) THEN PyStr(first_letter(v))
         ELSE v
    ELSE v

\* keys ending in normal_direction (any case)
NormalDirection(key, v) ==
    IF EndsWith(Lower(key), "normal_direction")
    THEN LET enum_member == parse_enum("FaultDirection", v, PyNone)
             s == Strip(Strip(PyStrOf(v), " \t\n"), "'\"")
         IN IF Truthy(enum_member) THEN PyStr(first_letter(enum_member))
            ELSE IF s # "" THEN PyStr(UpperChar(Char(s, 1)))
            ELSE v
    ELSE v

\* a deliberately wrong BoolToYesNo, the two words swapped: C1 must tell it apart
BoolToYesNo_Swapped(v) == IF v.t = "bool" THEN PyStr(IF v.b THEN "no" ELSE "yes") ELSE v

\* booleans become the strings "yes" / "no"
BoolToYesNo(v) == IF v.t = "bool" THEN PyStr(IF v.b THEN "yes" ELSE "no") ELSE v

\* the if / elif chain that turns the value into value_str
Literal(v) ==
    IF v.t = "None" THEN "''"
    ELSE IF v.t = "float" \/ (v.t = "str" /\ StartsWith(Lower(v.s), "1e-"))
    THEN LET isSciStr == v.t = "str" /\ Contains(Lower(v.s), "e")
             parsed == ParseFloat(v.s)
             f == IF isSciStr THEN parsed.f ELSE v
         IN IF isSciStr /\ ~parsed.ok THEN PyStrOf(v)
            ELSE IF Contains(Lower(PyStrOf(f)), "e-")
            THEN RStrip(RStrip(Format10f(f), "0"), ".")
            ELSE PyStrOf(f)
    ELSE IF v.t = "str"
    THEN (IF v.s = "not found" THEN "''" ELSE "'" \o v.s \o "'")
    ELSE PyStrOf(v)

\* the literal config_line writes after "= "
\* a deliberately wrong formatter that knows no sentinel: C20 must tell it
\* apart
FormatValue_NoSentinel(key, value) ==
    Literal(BoolToYesNo(NormalDirection(key, AnisotropyDirection(key, OctreeFlip(key, UnwrapIntEnum(value))))))

FormatValue(key, value) ==
    LET v0 == UnwrapIntEnum(value)
    IN IF v0 = PyStr("notfound") THEN "''"
       ELSE Literal(BoolToYesNo(NormalDirection(key, AnisotropyDirection(key, OctreeFlip(key, v0)))))

\* the line config_line appends
ConfigLineText(pfx, key, value) == pfx \o "set @" \o key \o "= " \o FormatValue(key, value)


(***************************************************************************)
(* Inputs of the formatter.                                                *)
(***************************************************************************)
Prefixes == {"", "fish "}

ConfigKeys ==
    {"flag_enabled", "Octree_Mesh", "zone_size",
     "domain1_anisotropy_surface_normal_direction",
     "x_anisotropy_surface_normal_direction_y",
     "fault1_normal_direction", "Fault1_Normal_Direction"}

Floats ==
    {PyFloat(FALSE, "1", -4),     \* 1e-05
     PyFloat(FALSE, "2", -4),     \* 2e-05
     PyFloat(TRUE, "1", -4),      \* -1e-05
     PyFloat(FALSE, "15", -6),    \* 1.5e-07
     PyFloat(FALSE, "1", -10),    \* 1e-11
     PyFloat(FALSE, "96", -10),   \* 9.6e-11
     PyFloat(FALSE, "1", -3),     \* 0.0001
     PyFloat(FALSE, "5", 0),      \* 0.5
     PyFloat(FALSE, "2", 1),      \* 2.0
     PyFloat(FALSE, "125", 2),    \* 12.5
     PyFloat(FALSE, "1", 21)}     \* 1e+20

Texts ==
    {"", "true", "True", "FALSE", "false", "yes", "notfound", "not found",
     "1e-05", "2e-05", "1E-05", "1e-5x", "1e-0",
     "Top", "top", "TOP", "north", "West", "xyz", "'east'", "soil"}

EnumMembers ==
    {PyEnum("FaultDirection", "Top", FALSE), PyEnum("FaultDirection", "Top", TRUE),
     PyEnum("FaultDirection", "West", FALSE), PyEnum("FaultDirection", "North", TRUE),
     PyEnum("DomainType", "Soil", FALSE), PyEnum("DomainType", "Rock", TRUE),
     PyEnum("DensificationLevel", "Minimum", FALSE)}

ConfigValues ==
    {PyNone, PyBool(TRUE), PyBool(FALSE), PyIntEnum(2)}
    \cup {PyInt(n) : n \in {0, 1, 2, 6, 7}}
    \cup Floats
    \cup {PyStr(x) : x \in Texts}
    \cup EnumMembers

\* what the builder machine below passes to config_line; the formatter
\* machine further down goes through all of ConfigKeys and ConfigValues
BuilderKeys == {"flag_enabled", "Octree_Mesh"}

BuilderValues == {PyBool(TRUE), PyInt(2), PyStr("Top")}

Titles == {"Domains", "Mesh"}

RawLines == {"; note", "set @a= 1"}

(***************************************************************************)
(* ConfigBuilder: the operations on the line accumulator.                  *)
(***************************************************************************)
\* built holds the text of the last build of this builder, if any
NoCall == [op |-> "__init__", built |-> <<>>]
Returned(v) == [raised |-> FALSE, v |-> v]
Raised == [raised |-> TRUE, v |-> PyNone]

\* the lines add_section_header appends
SectionHeaderLines(title) ==
    <<";==============================", ";==== " \o title,
      ";==============================", "">>

\* a deliberately wrong subheading without the closing rule: C22 must tell
\* it apart
SubheadingLines_Open(title) == <<";--------------------", ";-- " \o title>>

\* the lines subheading appends
SubheadingLines(title) ==
    <<";--------------------", ";-- " \o title, ";--------------------">>

\* a deliberately wrong join that separates the lines by a blank: C16 must
\* tell it apart
RECURSIVE Join_Blank(_)
Join_Blank(ls) ==
    IF ls = <<>> THEN ""
    ELSE IF Len(ls) = 1 THEN ls[1]
    ELSE ls[1] \o " " \o Join_Blank(Tail(ls))

\* "\n".join(ls)
RECURSIVE Join(_)
Join(ls) ==
    IF ls = <<>> THEN ""
    ELSE IF Len(ls) = 1 THEN ls[1]
    ELSE ls[1] \o "\n" \o Join(Tail(ls))

Init ==
    /\ lines = <<>>
    /\ prefix \in Prefixes
    /\ call = NoCall
    /\ ret = Returned(PyNone)

\* ConfigBuilder(prefix): a fresh builder
NewBuilder ==
    \E pfx \in Prefixes :
        /\ lines' = <<>>
        /\ prefix' = pfx
        /\ call' = NoCall
        /\ ret' = Returned(PyNone)

add_line ==
    \E text \in RawLines :
        /\ Len(lines) < MaxLines
        /\ lines' = Append(lines, text)
        /\ call' = [op |-> "add_line", text |-> text, before |-> lines, built |-> call.built]
        /\ ret' = Returned(PyNone)
        /\ UNCHANGED prefix

newline ==
    /\ Len(lines) < MaxLines
    /\ lines' = Append(lines, "")
    /\ call' = [op |-> "newline", before |-> lines, built |-> call.built]
    /\ ret' = Returned(PyNone)
    /\ UNCHANGED prefix

add_section_header ==
    \E title \in Titles :
        /\ Len(lines) < MaxLines
        /\ lines' = lines \o SectionHeaderLines(title)
        /\ call' = [op |-> "add_section_header", title |-> title, before |-> lines, built |-> call.built]
        /\ ret' = Returned(PyNone)
        /\ UNCHANGED prefix

subheading ==
    \E title \in Titles :
        /\ Len(lines) < MaxLines
        /\ lines' = lines \o SubheadingLines(title)
        /\ call' = [op |-> "subheading", title |-> title, before |-> lines, built |-> call.built]
        /\ ret' = Returned(PyNone)
        /\ UNCHANGED prefix

\* a deliberately wrong config_line that replaces the last line when it
\* sets the same key: C18 must tell it apart
config_line_Overwriting ==
    \E key \in BuilderKeys, value \in BuilderValues :
        /\ Len(lines) < MaxLines
        /\ lines' = IF lines # <<>> /\ StartsWith(lines[Len(lines)], prefix \o "set @" \o key \o "=")
                    THEN Append(SubSeq(lines, 1, Len(lines) - 1), ConfigLineText(prefix, key, value))
                    ELSE Append(lines, ConfigLineText(prefix, key, value))
        /\ call' = [op |-> "config_line", key |-> key, value |-> value, before |-> lines, built |-> call.built]
        /\ ret' = Returned(PyNone)
        /\ UNCHANGED prefix

config_line ==
    \E key \in BuilderKeys, value \in BuilderValues :
        /\ Len(lines) < MaxLines
        /\ lines' = Append(lines, ConfigLineText(prefix, key, value))
        /\ call' = [op |-> "config_line", key |-> key, value |-> value, before |-> lines, built |-> call.built]
        /\ ret' = Returned(PyNone)
        /\ UNCHANGED prefix

\* a deliberately wrong build that hands the lines over and starts afresh:
\* C17 must tell it apart
build_Draining ==
    /\ call' = [op |-> "build", before |-> lines, built |-> <<Join(lines)>>, earlier |-> call.built]
    /\ ret' = Returned(PyStr(Join(lines)))
    /\ lines' = <<>>
    /\ UNCHANGED prefix

\* earlier holds the text of the build before this one, if any
build ==
    /\ call' = [op |-> "build", before |-> lines, built |-> <<Join(lines)>>, earlier |-> call.built]
    /\ ret' = Returned(PyStr(Join(lines)))
    /\ UNCHANGED <<lines, prefix>>

Next ==
    \/ NewBuilder
    \/ add_line
    \/ newline
    \/ add_section_header
    \/ subheading
    \/ config_line
    \/ build

Spec == Init /\ [][Next]_vars

(***************************************************************************)
(* The formatter as a state machine: the builder, the key and the value of *)
(* one config_line call are drawn first, then the call is made.            *)
(***************************************************************************)
InitFormat ==
    /\ lines \in UNION {[1..m -> RawLines] : m \in 0..MaxBefore}
    /\ prefix \in Prefixes
    /\ \E key \in ConfigKeys, value \in ConfigValues :
         call = [op |-> "input", key |-> key, value |-> value]
    /\ ret = Returned(PyNone)

CallConfigLine ==
    /\ call.op = "input"
    /\ lines' = Append(lines, ConfigLineText(prefix, call.key, call.value))
    /\ call' = [op |-> "config_line", key |-> call.key, value |-> call.value,
                before |-> lines]
    /\ ret' = Returned(PyNone)
    /\ UNCHANGED prefix

NextFormat == CallConfigLine

SpecFormat == InitFormat /\ [][NextFormat]_vars


(***************************************************************************)
(* Entities and the reference library.                                     *)
(* An entity is [kind, attrs, raising]: kind "obj" is an object whose      *)
(* attributes are attrs (a function on the attribute names it has) and     *)
(* whose attributes in `raising` are properties that raise when read;      *)
(* kind "dict" is a mapping whose items are attrs.                         *)
(* A reference library is a function from keys to entries                  *)
(* [internal_name |-> field].                                              *)
(***************************************************************************)
Obj(attrs) == [kind |-> "obj", attrs |-> attrs, raising |-> {}]
RaisingObj(attrs, raising) == [kind |-> "obj", attrs |-> attrs, raising |-> raising]
Dict(items) == [kind |-> "dict", attrs |-> items, raising |-> {}]
NoAttrs == <<>>
EmptyLib == <<>>

\* getattr(obj, name, default): a dict has none of the field names as an
\* attribute, so getattr on it gives the default
GetAttr(obj, name, default) ==
    IF name \in obj.raising THEN Raised
    ELSE IF obj.kind = "obj" /\ name \in DOMAIN obj.attrs THEN Returned(obj.attrs[name])
    ELSE Returned(default)

\* a deliberately wrong get_value, None for an absent field: C7 must tell it apart
get_value_NoDefault(obj, key, default) ==
    LET r == GetAttr(obj, key, PyNone)
    IN IF ~r.raised THEN r.v ELSE PyNone

get_value(obj, key, default) ==
    LET r == GetAttr(obj, key, default)
    IN IF ~r.raised THEN r.v
       ELSE IF obj.kind = "dict"
       THEN (IF key \in DOMAIN obj.attrs THEN obj.attrs[key] ELSE default)
       ELSE default

\* the substrings that mark a boolean-like key
BoolIndicators == {"is_", "has_", "include_", "enabled", "custom"}

\* int(result) when that is 1 or 2, else 0 (also when int() raises)
IntCode(v) ==
    LET digit == IF v.s = "" THEN "" ELSE Char(v.s, 1)
        txt == LStrip(Strip(v.s, " \t\n"), "+")
        n == CASE v.t \in {"int", "IntEnum"} -> v.i
               [] v.t = "float" ->
                    (IF ~v.b /\ v.i = 1 /\ digit \in {"1", "2"} THEN DigitsToNat(digit) ELSE 0)
               [] v.t = "str" ->
                    (IF IsDigits(txt) /\ Len(txt) <= 4 THEN DigitsToNat(txt) ELSE 0)
               [] OTHER -> 0
    IN IF n \in {1, 2} THEN n ELSE 0

\* the direction map of mapped_value
direction_map_mv ==
    [n \in {"Top", "Down", "North", "South", "East", "West"} |-> UpperChar(Char(n, 1))]

\* the _Rock_or_Soil rule: always a numeric code
RockOrSoilCode(result) ==
    LET rs == Lower(Strip(PyStrOf(result), " \t\n"))
    IN IF result.t = "DomainType" /\ result.b THEN PyInt(numeric_value(result))
       ELSE IF IntCode(result) # 0 THEN PyInt(IntCode(result))
       ELSE IF Contains(rs, "soil") THEN PyInt(1)
       ELSE IF Contains(rs, "rock") THEN PyInt(2)
       ELSE PyInt(2)

\* the generic enum rule: letter, else numeric_value, else value
EnumFallback(result) ==
    IF HasLetter(result) THEN PyStr(first_letter(result))
    ELSE IF HasNumericValue(result) THEN PyInt(numeric_value(result))
    ELSE PyInt(result.i)

\* FaultDirection[result].letter for a string naming a member
StringifiedEnum(result) ==
    LET member == PyEnum("FaultDirection", result.s, FALSE)
    IN IF HasLetter(member) THEN Returned(PyStr(first_letter(member))) ELSE Raised

mapped_value(obj, key, ref_lib, default) ==
    LET is_anisotropy_direction == Contains(key, "anisotropy_surface_normal_direction")
        is_normal_direction == Contains(key, "_normal_direction")
        is_rock_or_soil == Contains(key, "_Rock_or_Soil")
        result == IF key \in DOMAIN ref_lib
                  THEN get_value(obj, ref_lib[key].internal_name, default)
                  ELSE get_value(obj, key, default)
        empty == result = PyNone \/ result = PyStr("")
        names == {FaultDirection[k] : k \in 1..Len(FaultDirection)}
        lowered == {n \in DOMAIN direction_map_mv : Lower(result.s) = Lower(n)}
    IN IF result = PyNone /\ default = PyStr("notfound") THEN Returned(PyStr("notfound"))
       ELSE IF empty /\ \E ind \in BoolIndicators : Contains(Lower(key), ind)
       THEN Returned(PyStr("no"))
       ELSE IF result.t = "bool" THEN Returned(PyStr(IF result.b THEN "yes" ELSE "no"))
       ELSE IF is_rock_or_soil THEN Returned(RockOrSoilCode(result))
       ELSE IF (is_anisotropy_direction \/ is_normal_direction) /\ HasLetter(result)
       THEN Returned(PyStr(first_letter(result)))
       ELSE IF (is_anisotropy_direction \/ is_normal_direction) /\ result.t = "str"
       THEN (IF result.s \in DOMAIN direction_map_mv
             THEN Returned(PyStr(direction_map_mv[result.s]))
             ELSE IF lowered # {}
             THEN Returned(PyStr(direction_map_mv[CHOOSE n \in lowered : TRUE]))
             ELSE Returned(PyStr("T")))
       ELSE IF IsEnum(result) THEN Returned(EnumFallback(result))
       ELSE IF result.t = "str" /\ result.s \in names THEN StringifiedEnum(result)
       ELSE Returned(result)


(***************************************************************************)
(* The lookup layer as a state machine: each step calls get_value or       *)
(* mapped_value on inputs drawn from the sets below and records the        *)
(* outcome.                                                                *)
(***************************************************************************)
LookupKeys ==
    {"some_key", "is_enabled", "domain1_Rock_or_Soil",
     "domain1_anisotropy_surface_normal_direction", "fault1_normal_direction"}

LookupValues ==
    {PyNone, PyBool(TRUE), PyBool(FALSE), PyIntEnum(2)}
    \cup {PyInt(n) : n \in {0, 1, 2, 3}}
    \cup {PyFloat(FALSE, "19", 1), PyFloat(FALSE, "5", 0)}
    \cup {PyStr(x) : x \in {"", "Top", "top", "wEsT", "North", "xyz", "notfound",
                            "soil", "Soil", "ROCK", "soil rock", "clay", "1", "2"}}
    \cup EnumMembers

Defaults ==
    {PyStr(""), PyStr("X"), PyStr("Top"), PyStr("notfound"), PyNone, PyBool(TRUE),
     PyInt(5), PyEnum("FaultDirection", "Top", FALSE)}

\* the name of the field a reference entry stores the value under
InternalName == "f_int"

LibFor(key) == (key :> [internal_name |-> InternalName])

\* the field the key resolves to: the entry's internal_name, else the key
ResolvedField(key, ref_lib) ==
    IF key \in DOMAIN ref_lib THEN ref_lib[key].internal_name ELSE key

\* entities that hold, lack or fail to deliver the field
LookupEntities(field) ==
    {Obj((field :> v)) : v \in LookupValues}
    \cup {Obj(NoAttrs), Obj(("other" :> PyInt(1))),
          Dict((field :> PyInt(5))), Dict(NoAttrs),
          RaisingObj(NoAttrs, {field})}

\* the inputs of one lookup are drawn first, then get_value or mapped_value
\* is applied to them
InitLookup ==
    /\ lines = <<>>
    /\ prefix = ""
    /\ \E key \in LookupKeys, default \in Defaults :
         \E ref_lib \in {EmptyLib, LibFor(key)} :
           \E obj \in LookupEntities(ResolvedField(key, ref_lib)) :
             call = [op |-> "input", obj |-> obj, key |-> key,
                     ref_lib |-> ref_lib, default |-> default]
    /\ ret = Returned(PyNone)

CallGetValue ==
    /\ call.op = "input"
    /\ call' = [call EXCEPT !.op = "get_value"]
    /\ ret' = Returned(get_value(call.obj, ResolvedField(call.key, call.ref_lib), call.default))
    /\ UNCHANGED <<lines, prefix>>

CallMappedValue ==
    /\ call.op = "input"
    /\ call' = [call EXCEPT !.op = "mapped_value"]
    /\ ret' = mapped_value(call.obj, call.key, call.ref_lib, call.default)
    /\ UNCHANGED <<lines, prefix>>

NextLookup ==
    \/ CallGetValue
    \/ CallMappedValue

SpecLookup == InitLookup /\ [][NextLookup]_vars


(***************************************************************************)
(* The recursive section encoders.                                         *)
(* A field mapping is a triple <<key_template, field_name, default>>.      *)
(***************************************************************************)
FormatFailed == [ok |-> FALSE, s |-> ""]

\* template.format(**fields): {name} is replaced by fields[name], {{ and }}
\* are literal braces; a name that is not a keyword (KeyError, IndexError)
\* or an unbalanced brace (ValueError) makes the call raise: ok = FALSE
RECURSIVE StrFormat(_, _)
StrFormat(template, fields) ==
    IF template = "" THEN [ok |-> TRUE, s |-> ""]
    ELSE LET c == Head(template)
             closing == {j \in 2..Len(template) : Char(template, j) = "}"}
             close == CHOOSE j \in closing : \A m \in closing : j <= m
             name == SubSeq(template, 2, close - 1)
             skip == IF c \in {"{", "}"} /\ StartsWith(template, c \o c) THEN 2
                     ELSE IF c = "{" /\ closing # {} THEN close
                     ELSE 1
             piece == IF skip = 2 /\ StartsWith(template, c \o c) /\ c \in {"{", "}"} THEN c
                      ELSE IF c = "{" THEN fields[name]
                      ELSE c
             failed == IF c \in {"{", "}"} /\ StartsWith(template, c \o c) THEN FALSE
                       ELSE IF c = "{" THEN closing = {} \/ name \notin DOMAIN fields
                       ELSE c = "}"
             rest == StrFormat(SubSeq(template, skip + 1, Len(template)), fields)
         IN IF failed \/ ~rest.ok THEN FormatFailed
            ELSE [ok |-> TRUE, s |-> piece \o rest.s]

\* the value add_section_recursive emits for one field: [raised, v]
SectionValue(item, field_name, default, ref_lib) ==
    IF field_name = "pit_densification_intensity"
    THEN LET dens == GetAttr(item, field_name, PyNone)
         IN IF dens.raised THEN Raised
            ELSE IF HasNumericValue(dens.v) THEN Returned(PyInt(numeric_value(dens.v)))
            ELSE IF dens.v.t = "IntEnum" THEN Returned(PyInt(dens.v.i))
            ELSE Returned(default)
    ELSE IF field_name \in {"pit_upload", "pit_upload_phreatic_surface"}
    THEN LET got == GetAttr(item, field_name, default)
             val == IF got.v = PyNone THEN default ELSE got.v
         IN IF got.raised THEN Raised
            ELSE IF val.t = "str" THEN Returned(val)
            ELSE Returned(PyStr(IF Truthy(val) THEN PyStrOf(val) ELSE ""))
    ELSE IF ref_lib # EmptyLib
    THEN mapped_value(item, field_name, ref_lib, default)
    ELSE LET got == GetAttr(item, field_name, PyNone)
             raw_val == got.v
         IN IF got.raised THEN Raised
            ELSE IF default.t = "bool"
            THEN (IF raw_val.t = "bool" THEN Returned(raw_val)
                  ELSE IF raw_val.t = "str"
                  THEN Returned(PyBool(Lower(raw_val.s) \in {"yes", "true", "1"}))
                  ELSE IF raw_val.t \in {"int", "IntEnum", "float"}
                  THEN Returned(PyBool(Truthy(raw_val)))
                  ELSE Returned(default))
            ELSE Returned(IF raw_val # PyNone THEN raw_val ELSE default)

\* The walk of add_section_recursive carries [lines, output_key, aborted]:
\* output_key is the function's local variable, <<>> while unbound and
\* <<key>> once assigned; it keeps its value from one field, and one
\* entity, to the next.

\* one field mapping of one entity: the try / except around it
SectionField(st, pfx, item, index, identifier_safe, mapping, ref_lib) ==
    LET key == StrFormat(mapping[1], ("index" :> IntToStr(index)) @@ ("name" :> identifier_safe))
        val == SectionValue(item, mapping[2], mapping[3], ref_lib)
    IN IF key.ok
       THEN [lines |-> Append(st.lines,
                              ConfigLineText(pfx, key.s, IF val.raised THEN mapping[3] ELSE val.v)),
             output_key |-> <<key.s>>,
             aborted |-> FALSE]
       ELSE IF st.output_key # <<>>
       THEN \* the handler emits the default under the key left by an earlier field
            [lines |-> Append(st.lines, ConfigLineText(pfx, st.output_key[1], mapping[3])),
             output_key |-> st.output_key,
             aborted |-> FALSE]
       ELSE \* the handler itself raises UnboundLocalError: the entity is abandoned
            [lines |-> st.lines, output_key |-> st.output_key, aborted |-> TRUE]

RECURSIVE SectionFields(_, _, _, _, _, _, _, _)
SectionFields(st, pfx, item, index, identifier_safe, field_mappings, k, ref_lib) ==
    IF k > Len(field_mappings) \/ st.aborted THEN st
    ELSE SectionFields(SectionField(st, pfx, item, index, identifier_safe,
                                    field_mappings[k], ref_lib),
                       pfx, item, index, identifier_safe, field_mappings, k + 1, ref_lib)

\* one entity: identifier, optional heading, the fields, the closing blank line
SectionItem(st, pfx, title, item, index, field_mappings, ref_lib, with_heading, identifier_key) ==
    LET identifier == GetAttr(item, identifier_key, PyNone)
        skipped == identifier_key # "" /\ (identifier.raised \/ ~Truthy(identifier.v))
        identifier_safe == IF identifier_key # ""
                           THEN Replace(PyStrOf(identifier.v), " ", "_")
                           ELSE IntToStr(index)
        heading_label == IF identifier_key # ""
                         THEN title \o " " \o identifier_safe
                         ELSE title \o " #" \o IntToStr(index)
        start == IF with_heading
                 THEN [st EXCEPT !.lines = st.lines \o SubheadingLines(heading_label)]
                 ELSE st
        done == SectionFields(start, pfx, item, index, identifier_safe,
                              field_mappings, 1, ref_lib)
    IN IF skipped THEN st
       ELSE IF done.aborted THEN [done EXCEPT !.aborted = FALSE]
       ELSE [done EXCEPT !.lines = Append(done.lines, "")]

RECURSIVE SectionItems(_, _, _, _, _, _, _, _, _)
SectionItems(st, pfx, title, collection, index, field_mappings, ref_lib, with_heading, identifier_key) ==
    IF index > Len(collection) THEN st
    ELSE SectionItems(SectionItem(st, pfx, title, collection[index], index, field_mappings,
                                  ref_lib, with_heading, identifier_key),
                      pfx, title, collection, index + 1, field_mappings, ref_lib,
                      with_heading, identifier_key)

\* the lines of the builder after add_section_recursive; identifier_key ""
\* stands for None
SectionRecursiveLines(ls, pfx, title, collection, field_mappings, ref_lib, with_heading, identifier_key) ==
    SectionItems([lines |-> ls, output_key |-> <<>>, aborted |-> FALSE],
                 pfx, title, collection, 1, field_mappings, ref_lib,
                 with_heading, identifier_key).lines

\* The walk of add_grouped_section_recursive carries [lines, raised]: nothing
\* is caught, the first exception ends the call.

\* the value of one field of a group: [raised, v]
GroupedValue(item, field_name, default, ref_lib) ==
    LET fetched == IF ref_lib # EmptyLib /\ field_name \in DOMAIN ref_lib
                   THEN Returned(get_value(item, ref_lib[field_name].internal_name, default))
                   ELSE GetAttr(item, field_name, default)
        dt == GetAttr(item, "domain_type", PyNone)
    IN IF fetched.raised THEN Raised
       ELSE IF field_name = "<domain_name>_Rock_or_Soil"
       THEN (IF dt.raised THEN Raised
             ELSE IF HasNumericValue(dt.v) THEN Returned(PyInt(numeric_value(dt.v)))
             ELSE IF Contains(Lower(PyStrOf(fetched.v)), "rock") THEN Returned(PyInt(2))
             ELSE Returned(PyInt(1)))
       ELSE fetched

GroupedField(st, pfx, item, index, mapping, ref_lib) ==
    LET key == StrFormat(mapping[1], ("index" :> IntToStr(index)))
        val == GroupedValue(item, mapping[2], mapping[3], ref_lib)
    IN IF ~key.ok \/ val.raised THEN [st EXCEPT !.raised = TRUE]
       ELSE [st EXCEPT !.lines = Append(st.lines, ConfigLineText(pfx, key.s, val.v))]

RECURSIVE GroupedFields(_, _, _, _, _, _, _)
GroupedFields(st, pfx, item, index, field_mappings, k, ref_lib) ==
    IF k > Len(field_mappings) \/ st.raised THEN st
    ELSE GroupedFields(GroupedField(st, pfx, item, index, field_mappings[k], ref_lib),
                       pfx, item, index, field_mappings, k + 1, ref_lib)

\* the groups of one entity, each with its subheading and closing blank line
RECURSIVE GroupedGroups(_, _, _, _, _, _, _)
GroupedGroups(st, pfx, item, index, groups, g, ref_lib) ==
    IF st.raised THEN st
    ELSE IF g > Len(groups) THEN [st EXCEPT !.lines = Append(st.lines, "")]
    ELSE LET headed == [st EXCEPT !.lines = st.lines \o SubheadingLines(groups[g][1])]
             done == GroupedFields(headed, pfx, item, index, groups[g][2], 1, ref_lib)
         IN GroupedGroups(IF done.raised THEN done
                          ELSE [done EXCEPT !.lines = Append(done.lines, "")],
                          pfx, item, index, groups, g + 1, ref_lib)

RECURSIVE GroupedItems(_, _, _, _, _, _)
GroupedItems(st, pfx, collection, index, groups, ref_lib) ==
    IF index > Len(collection) \/ st.raised THEN st
    ELSE GroupedItems(GroupedGroups(st, pfx, collection[index], index, groups, 1, ref_lib),
                      pfx, collection, index + 1, groups, ref_lib)

\* [lines, raised] after add_grouped_section_recursive
GroupedSectionResult(ls, pfx, collection, groups, ref_lib) ==
    GroupedItems([lines |-> ls, raised |-> FALSE], pfx, collection, 1, groups, ref_lib)

(***************************************************************************)
(* The section encoders as a state machine: the collection, the field      *)
(* mappings and the flags of one call are drawn first, then one of the two *)
(* encoders is applied to a fresh builder.                                 *)
(***************************************************************************)
SectionEntities ==
    {Obj(("name" :> PyStr("Ore Body")) @@ ("a" :> PyInt(1)) @@ ("b" :> PyStr("x"))
         @@ ("domain_type" :> PyEnum("DomainType", "Rock", FALSE))),
     Obj(("name" :> PyStr("z")) @@ ("a" :> PyStr("Top")) @@ ("b" :> PyBool(TRUE))),
     RaisingObj(("a" :> PyInt(2)), {"p"})}

SectionMappings ==
    {<<"domain{index}_a", "a", PyInt(0)>>,
     <<"domain{index}_b", "b", PyStr("d")>>,
     <<"domain{foo}_c", "a", PyInt(9)>>,
     <<"{name}_a", "a", PyInt(0)>>,
     <<"domain{index}_p", "p", PyInt(7)>>}

SectionLib == ("a" :> [internal_name |-> "a"]) @@ ("p" :> [internal_name |-> "p"])

SectionTitle == "Domain"

\* the lists of at most n different members of S
SeqsUpTo(S, n) ==
    UNION {{q \in [1..m -> S] : \A i, j \in 1..m : q[i] = q[j] => i = j} : m \in 0..n}

\* the groups of a grouped call: all mappings under one heading, or the
\* first mapping under one heading and the rest under a second
GroupsOf(field_mappings, split) ==
    IF split /\ Len(field_mappings) > 1
    THEN <<<<"Mechanical", SubSeq(field_mappings, 1, 1)>>,
           <<"Geometry", SubSeq(field_mappings, 2, Len(field_mappings))>>>>
    ELSE <<<<"Mechanical", field_mappings>>>>

InitSection ==
    /\ lines = <<>>
    /\ prefix \in Prefixes
    /\ \E collection \in SeqsUpTo(SectionEntities, MaxEntities),
          field_mappings \in SeqsUpTo(SectionMappings, MaxTriples),
          ref_lib \in {EmptyLib, SectionLib},
          flag \in BOOLEAN,
          identifier_key \in {"", "name"} :
         call = [op |-> "input", collection |-> collection,
                 field_mappings |-> field_mappings, ref_lib |-> ref_lib,
                 flag |-> flag, identifier_key |-> identifier_key]
    /\ ret = Returned(PyNone)

\* add_section_recursive(title, collection, field_mappings, ref_lib,
\*                       with_heading = flag, identifier_key): every exception
\* is caught inside, the call returns None
add_section_recursive ==
    /\ call.op = "input"
    /\ lines' = SectionRecursiveLines(lines, prefix, SectionTitle, call.collection,
                                      call.field_mappings, call.ref_lib,
                                      call.flag, call.identifier_key)
    /\ call' = [call EXCEPT !.op = "add_section_recursive"]
    /\ ret' = Returned(PyNone)
    /\ UNCHANGED prefix

\* add_grouped_section_recursive(title, collection, groups, ref_lib): the
\* lines appended before an exception stay in the builder
add_grouped_section_recursive ==
    /\ call.op = "input"
    /\ LET r == GroupedSectionResult(lines, prefix, call.collection,
                                     GroupsOf(call.field_mappings, call.flag),
                                     call.ref_lib)
       IN /\ lines' = r.lines
          /\ ret' = IF r.raised THEN Raised ELSE Returned(PyNone)
    /\ call' = [call EXCEPT !.op = "add_grouped_section_recursive"]
    /\ UNCHANGED prefix

NextSection ==
    \/ add_section_recursive
    \/ add_grouped_section_recursive

SpecSection == InitSection /\ [][NextSection]_vars


(***************************************************************************)
(* Properties of the formatter (checked under SpecFormat).                 *)
(***************************************************************************)
ConfigLineCalled == call.op = "config_line"

\* the literal of the line the last config_line call appended
EmittedLiteral ==
    LET head == prefix \o "set @" \o call.key \o "= "
        last == lines[Len(lines)]
    IN SubSeq(last, Len(head) + 1, Len(last))

\* the literal without its surrounding single quotes, if it has them
Unquoted(lit) ==
    IF Len(lit) >= 2 /\ StartsWith(lit, "'") /\ EndsWith(lit, "'")
    THEN SubSeq(lit, 2, Len(lit) - 1)
    ELSE lit

\* the keys config_line treats as direction keys
IsDirectionKey(key) ==
    \/ Contains(key, "anisotropy_surface_normal_direction")
    \/ EndsWith(Lower(key), "normal_direction")

\* C1, as stated: for a key other than Octree_Mesh that is not a direction
\* key, config_line(key, b) appends exactly `{prefix}set @{key}= yes` for
\* b = True and `{prefix}set @{key}= no` for b = False, the bare word.
C1_BareYesNo ==
    (ConfigLineCalled /\ call.value.t = "bool"
        /\ call.key # "Octree_Mesh" /\ ~IsDirectionKey(call.key))
    => lines = Append(call.before,
                      prefix \o "set @" \o call.key \o "= "
                        \o (IF call.value.b THEN "yes" ELSE "no"))

\* C1, amended: for such a key config_line(key, b) appends exactly one line,
\* `{prefix}set @{key}= 'yes'` for True and `{prefix}set @{key}= 'no'` for
\* False: the word is emitted as a single-quoted string.
C1_QuotedYesNo ==
    (ConfigLineCalled /\ call.value.t = "bool"
        /\ call.key # "Octree_Mesh" /\ ~IsDirectionKey(call.key))
    => lines = Append(call.before,
                      prefix \o "set @" \o call.key \o "= "
                        \o (IF call.value.b THEN "'yes'" ELSE "'no'"))

C1_Witness ==
    /\ ConfigLineCalled
    /\ call.key = "flag_enabled"
    /\ call.value = PyBool(TRUE)
    /\ prefix = ""
    /\ lines = <<"set @flag_enabled= 'yes'">>

\* C2: for key Octree_Mesh the boolean mapping is inverted for boolean and
\* textual inputs alike: True and "true" (any case) are rendered as no,
\* False and "false" (any case) as yes.  (Stated here with the quotes around
\* the word tolerated: the code fails the claim even so.)
C2_OctreeInverted ==
    LET v == call.value
        trueLike == v = PyBool(TRUE) \/ (v.t = "str" /\ Lower(v.s) = "true")
        falseLike == v = PyBool(FALSE) \/ (v.t = "str" /\ Lower(v.s) = "false")
    IN (ConfigLineCalled /\ call.key = "Octree_Mesh")
       => /\ Len(lines) = Len(call.before) + 1
          /\ trueLike => Unquoted(EmittedLiteral) = "no"
          /\ falseLike => Unquoted(EmittedLiteral) = "yes"

\* digits, optionally with one decimal point between digits
IsMantissa(m) ==
    \/ IsDigits(m)
    \/ \E j \in 2..(Len(m) - 1) :
          /\ Char(m, j) = "."
          /\ IsDigits(SubSeq(m, 1, j - 1))
          /\ IsDigits(SubSeq(m, j + 1, Len(m)))

\* a number written in scientific notation: mantissa, e or E, signed exponent
IsSciNotation(x) ==
    \E k \in 2..(Len(x) - 1) :
        /\ Lower(Char(x, k)) = "e"
        /\ IsMantissa(SubSeq(x, 1, k - 1))
        /\ LET ex == SubSeq(x, k + 1, Len(x))
           IN \/ IsDigits(ex)
              \/ Char(ex, 1) \in {"+", "-"} /\ IsDigits(Tail(ex))

\* an unquoted fixed-decimal number without trailing zeros or trailing point
IsFixedDecimal(lit) ==
    LET body == IF StartsWith(lit, "-") THEN Tail(lit) ELSE lit
    IN /\ body # ""
       /\ IsMantissa(body)
       /\ Contains(body, ".") => Char(body, Len(body)) # "0"

\* C3: every float and every string holding a number in scientific notation
\* is rendered as an unquoted fixed-decimal number with no e / E, no trailing
\* zeros after the decimal point and no trailing decimal point.
C3_FixedDecimal ==
    (ConfigLineCalled /\ ~IsDirectionKey(call.key)
        /\ \/ call.value.t = "float"
           \/ call.value.t = "str" /\ IsSciNotation(call.value.s))
    => IsFixedDecimal(EmittedLiteral)

DirectionLetters == {"T", "D", "N", "S", "E", "W"}

\* C4: for a key that contains anisotropy_surface_normal_direction or ends
\* with _normal_direction, and for every value, the literal is exactly one
\* uppercase character from {T, D, N, S, E, W}; a FaultDirection member or a
\* direction name in any case gives the letter of that direction.  (Stated
\* with the quotes around the letter tolerated.)
C4_DirectionLetter ==
    LET v == call.value
        names == {FaultDirection[k] : k \in 1..Len(FaultDirection)}
        named == {n \in names :
                    \/ v.t = "FaultDirection" /\ v.s = n
                    \/ v.t = "str" /\ Lower(v.s) = Lower(n)}
    IN (ConfigLineCalled
          /\ \/ Contains(call.key, "anisotropy_surface_normal_direction")
             \/ EndsWith(call.key, "_normal_direction"))
       => /\ Unquoted(EmittedLiteral) \in DirectionLetters
          /\ \A n \in named : Unquoted(EmittedLiteral) = Char(n, 1)

(***************************************************************************)
(* Properties of the lookup layer (checked under SpecLookup).              *)
(***************************************************************************)
MappedValueCalled == call.op = "mapped_value"

\* the entity has no attribute or item for the field the key resolves to
FieldMissing ==
    LET field == ResolvedField(call.key, call.ref_lib)
    IN field \notin DOMAIN call.obj.attrs /\ field \notin call.obj.raising

\* the value stored in the field the key resolves to
StoredValue == call.obj.attrs[ResolvedField(call.key, call.ref_lib)]

FieldStored ==
    /\ call.obj.kind = "obj"
    /\ ResolvedField(call.key, call.ref_lib) \in DOMAIN call.obj.attrs

\* C5: for a key containing _Rock_or_Soil and every resolved value,
\* mapped_value returns an integer in {1, 2}: 1 for Soil (enum Soil, int 1,
\* a string containing soil), 2 for Rock (enum Rock, int 2, a string
\* containing rock).
C5_RockOrSoilCode ==
    (MappedValueCalled /\ Contains(call.key, "_Rock_or_Soil"))
    => /\ ret \in {Returned(PyInt(1)), Returned(PyInt(2))}
       /\ FieldStored =>
            LET v == StoredValue
            IN /\ (v.t = "DomainType" /\ v.s = "Soil") => ret = Returned(PyInt(1))
               /\ (v.t = "DomainType" /\ v.s = "Rock") => ret = Returned(PyInt(2))
               /\ v \in {PyInt(1), PyInt(2)} => ret = Returned(v)

\* C6: for a key containing anisotropy_surface_normal_direction or
\* _normal_direction, mapped_value returns a single uppercase letter from
\* {T, D, N, S, E, W} for every resolved value: the member's letter for a
\* FaultDirection member, the mapped letter for a direction name in any
\* case, T for an unrecognised, None or missing value.
C6_DirectionLetter ==
    (MappedValueCalled /\ Contains(call.key, "_normal_direction"))
    => /\ ~ret.raised
       /\ ret.v.t = "str"
       /\ ret.v.s \in DirectionLetters
       /\ (FieldStored /\ StoredValue.t = "FaultDirection")
            => ret.v.s = Char(StoredValue.s, 1)

\* the default d is subject to one of the coercion rules of mapped_value
\* under this key
Coerced(key, d) ==
    \/ d.t = "bool"
    \/ IsEnum(d)
    \/ (d = PyNone \/ d = PyStr("")) /\ \E ind \in BoolIndicators : Contains(Lower(key), ind)
    \/ Contains(key, "_Rock_or_Soil")
    \/ Contains(key, "_normal_direction") /\ d.t = "str"
    \/ d.t = "str" /\ \E k \in 1..Len(FaultDirection) : d.s = FaultDirection[k]

\* C7, as stated: for every entity that lacks the field the key resolves to
\* and every default d, mapped_value returns d and does not raise.
C7_ReturnsDefault ==
    (MappedValueCalled /\ FieldMissing) => ret = Returned(call.default)

\* C7, amended: for every entity that lacks the field the key resolves to,
\* mapped_value returns d and does not raise whenever no coercion rule
\* applies to d under that key, that is unless d is a boolean or an enum
\* member, d is None or empty under a boolean-like key, the key is a
\* _Rock_or_Soil key, the key is a direction key and d a string, or d is a
\* string naming a FaultDirection member; the default is coerced like a
\* stored value in those cases.
C7_ReturnsPlainDefault ==
    (MappedValueCalled /\ FieldMissing /\ ~Coerced(call.key, call.default))
    => ret = Returned(call.default)

C7_Witness ==
    /\ MappedValueCalled
    /\ call.key = "some_key"
    /\ call.obj = Obj(NoAttrs)
    /\ call.default = PyStr("X")
    /\ ret = Returned(PyStr("X"))

\* C8: mapped_value never raises; a plain string equal to a FaultDirection
\* member name under a key that is not a direction key is converted to its
\* letter.
C8_NeverRaises ==
    MappedValueCalled
    => /\ ~ret.raised
       /\ (FieldStored /\ StoredValue.t = "str"
             /\ (\E k \in 1..Len(FaultDirection) : StoredValue.s = FaultDirection[k])
             /\ ~Contains(call.key, "_Rock_or_Soil"))
          => ret = Returned(PyStr(Char(StoredValue.s, 1)))

(***************************************************************************)
(* Properties of the section encoders (checked under SpecSection).         *)
(***************************************************************************)
\* the entities of the call that are walked: with an identifier_key, an
\* entity whose identifier is absent or empty is passed over by design
Walked ==
    {i \in 1..Len(call.collection) :
        \/ call.identifier_key = ""
        \/ LET identifier == GetAttr(call.collection[i], call.identifier_key, PyNone)
           IN ~identifier.raised /\ Truthy(identifier.v)}

\* the key the k-th mapping resolves to for the i-th entity: [ok, s]
ResolvedKey(i, k) ==
    LET identifier == GetAttr(call.collection[i], call.identifier_key, PyNone)
        name == IF call.identifier_key = "" THEN IntToStr(i)
                ELSE Replace(PyStrOf(identifier.v), " ", "_")
        fields == IF call.op = "add_grouped_section_recursive"
                  THEN ("index" :> IntToStr(i))
                  ELSE ("index" :> IntToStr(i)) @@ ("name" :> name)
    IN StrFormat(call.field_mappings[k][1], fields)

\* the builder holds a line that sets the given key
HasLineFor(key) ==
    \E j \in 1..Len(lines) : StartsWith(lines[j], prefix \o "set @" \o key \o "= ")

ConfigLineCount == Cardinality({j \in 1..Len(lines) : StartsWith(lines[j], prefix \o "set @")})

\* C9: in add_section_recursive a failure on one triple of one entity never
\* prevents the remaining triples of that entity or of a later entity from
\* being emitted: every triple whose key resolves has its line under its own
\* key, and a failing field contributes at most one line.
C9_SectionFaultTolerant ==
    call.op = "add_section_recursive"
    => /\ \A i \in Walked : \A k \in 1..Len(call.field_mappings) :
             ResolvedKey(i, k).ok => HasLineFor(ResolvedKey(i, k).s)
       /\ ConfigLineCount <= Cardinality(Walked) * Len(call.field_mappings)

\* C10: add_grouped_section_recursive has the same fault tolerance: when one
\* field of one entity fails, no exception leaves the call and every
\* remaining field of every entity is still emitted.
C10_GroupedFaultTolerant ==
    call.op = "add_grouped_section_recursive"
    => /\ ~ret.raised
       /\ \A i \in 1..Len(call.collection) : \A k \in 1..Len(call.field_mappings) :
             ResolvedKey(i, k).ok => HasLineFor(ResolvedKey(i, k).s)

(***************************************************************************)
(* The material code at the two call sites: the grouped section encoder    *)
(* and mapped_value are applied, one after the other, to the same entity   *)
(* and the same key.                                                       *)
(***************************************************************************)
RockOrSoilField == "<domain_name>_Rock_or_Soil"

RockOrSoilTemplate == "domain{index}_Rock_or_Soil"

MaterialValues ==
    {PyNone, PyBool(TRUE), PyInt(1), PyInt(2), PyInt(3)}
    \cup {PyStr(x) : x \in {"", "soil", "Soil", "ROCK", "Hard Rock", "soil rock", "clay"}}
    \cup {PyEnum("DomainType", n, via) : n \in {"Soil", "Rock"}, via \in BOOLEAN}

\* the domain_type attribute of the entity: absent, or one of these
DomainTypeValues ==
    {PyEnum("DomainType", "Soil", FALSE), PyEnum("DomainType", "Rock", FALSE), PyStr("rock")}

MaterialEntities(field) ==
    {Obj((field :> v)) : v \in MaterialValues}
    \cup {Obj((field :> v) @@ ("domain_type" :> dt)) : v \in MaterialValues, dt \in DomainTypeValues}
    \cup {Obj(NoAttrs)}

InitMaterial ==
    /\ lines = <<>>
    /\ prefix \in Prefixes
    /\ \E ref_lib \in {EmptyLib, LibFor(RockOrSoilField)}, default \in {PyStr(""), PyInt(2)} :
         \E obj \in MaterialEntities(ResolvedField(RockOrSoilField, ref_lib)) :
           call = [op |-> "input", obj |-> obj, key |-> RockOrSoilField,
                   ref_lib |-> ref_lib, default |-> default]
    /\ ret = Returned(PyNone)

\* add_grouped_section_recursive on the one entity with the one field mapping
\* (template, "<domain_name>_Rock_or_Soil", default)
GroupedRockOrSoil ==
    /\ call.op = "input"
    /\ LET r == GroupedSectionResult(lines, prefix, <<call.obj>>,
                                     <<<<"Mechanical", <<<<RockOrSoilTemplate, call.key, call.default>>>>>>>>,
                                     call.ref_lib)
       IN /\ lines' = r.lines
          /\ ret' = IF r.raised THEN Raised ELSE Returned(PyNone)
    /\ call' = [call EXCEPT !.op = "grouped"]
    /\ UNCHANGED prefix

\* then mapped_value on the same entity, key, reference library and default
MappedRockOrSoil ==
    /\ call.op = "grouped"
    /\ ret' = mapped_value(call.obj, call.key, call.ref_lib, call.default)
    /\ call' = [call EXCEPT !.op = "compared"]
    /\ UNCHANGED <<lines, prefix>>

NextMaterial ==
    \/ GroupedRockOrSoil
    \/ MappedRockOrSoil

SpecMaterial == InitMaterial /\ [][NextMaterial]_vars

\* the literal of the line the grouped encoder emitted for the field: it
\* follows the three lines of the subheading
GroupedLiteral ==
    LET head == prefix \o "set @domain1_Rock_or_Soil= "
    IN SubSeq(lines[4], Len(head) + 1, Len(lines[4]))

\* C11: the Rock_or_Soil code does not depend on the call site: the code
\* add_grouped_section_recursive emits for "<domain_name>_Rock_or_Soil"
\* equals the code mapped_value returns for the same entity and key, the
\* ambiguous case (both Rock = 2) included.
C11_SameMaterialCode ==
    call.op = "compared"
    => /\ ~ret.raised
       /\ Len(lines) >= 4
       /\ GroupedLiteral = PyStrOf(ret.v)

(***************************************************************************)
(* The template resolver and the two decoders.                             *)
(* A replacement map is a function from tokens to strings.  A reference    *)
(* section, a Python dict in insertion order, is a sequence of entries     *)
(* [key, outputfile_name, internal_name]: key is the dict key, the other   *)
(* two are the items of its value, "" when the item is absent.  A decoded  *)
(* entity, a Python dict, is a function from field names to strings.       *)
(***************************************************************************)
\* the first index >= i at which the character c occurs in s, 0 if none
IndexFrom(s, c, i) ==
    LET hits == {j \in i..Len(s) : Char(s, j) = c}
    IN IF hits = {} THEN 0 ELSE CHOOSE j \in hits : \A m \in hits : j <= m

\* the end of the match of <([^>]+)> that starts at i, 0 if none starts there
TokenEnd(s, i) ==
    LET close == IndexFrom(s, ">", i + 1)
    IN IF i <= Len(s) /\ Char(s, i) = "<" /\ close > i + 1 THEN close ELSE 0

\* re.sub(r"<([^>]+)>", _repl, template), from position i on
RECURSIVE ResolveFrom(_, _, _)
ResolveFrom(template, replacements, i) ==
    IF i > Len(template) THEN ""
    ELSE LET close == TokenEnd(template, i)
             token == SubSeq(template, i + 1, close - 1)
         IN IF close > 0
            THEN (IF token \in DOMAIN replacements THEN replacements[token]
                  ELSE SubSeq(template, i, close))
                 \o ResolveFrom(template, replacements, close + 1)
            ELSE Char(template, i) \o ResolveFrom(template, replacements, i + 1)

\* a deliberately wrong resolver, nothing is replaced: C19 must tell it apart
resolve_placeholders_Verbatim(template, replacements) == template

resolve_placeholders(template, replacements) == ResolveFrom(template, replacements, 1)

\* re.findall(r"<([^>]+)>", template), from position i on
RECURSIVE TokensFrom(_, _)
TokensFrom(template, i) ==
    IF i > Len(template) THEN <<>>
    ELSE LET close == TokenEnd(template, i)
         IN IF close > 0
            THEN <<SubSeq(template, i + 1, close - 1)>> \o TokensFrom(template, close + 1)
            ELSE TokensFrom(template, i + 1)

Tokens(template) == TokensFrom(template, 1)

\* s.replace(old, new) for a non-empty old
RECURSIVE ReplaceStr(_, _, _)
ReplaceStr(s, old, new) ==
    IF s = "" THEN ""
    ELSE IF StartsWith(s, old) THEN new \o ReplaceStr(SubSeq(s, Len(old) + 1, Len(s)), old, new)
    ELSE Head(s) \o ReplaceStr(Tail(s), old, new)

\* \w, \d and \s of the regular expressions, on the characters of the model
IsWordChar(c) ==
    c # "" /\ (IndexIn(c, UpperLetters) > 0 \/ IndexIn(c, LowerLetters) > 0
               \/ IndexIn(c, Digits) > 0 \/ c = "_")

IsDigit(c) == c # "" /\ IndexIn(c, Digits) > 0

IsSpace(c) == c # "" /\ IndexIn(c, Whitespace) > 0

\* the index after the longest run of characters satisfying the class that
\* starts at i
RECURSIVE AfterDigits(_, _)
AfterDigits(s, i) == IF i <= Len(s) /\ IsDigit(Char(s, i)) THEN AfterDigits(s, i + 1) ELSE i

RECURSIVE AfterSpaces(_, _)
AfterSpaces(s, i) == IF i <= Len(s) /\ IsSpace(Char(s, i)) THEN AfterSpaces(s, i + 1) ELSE i

RECURSIVE AfterWord(_, _)
AfterWord(s, i) == IF i <= Len(s) /\ IsWordChar(Char(s, i)) THEN AfterWord(s, i + 1) ELSE i

\* s matches sub at position i, letter case ignored
MatchesAt(s, sub, i) ==
    i >= 1 /\ i + Len(sub) - 1 <= Len(s) /\ Lower(SubSeq(s, i, i + Len(sub) - 1)) = Lower(sub)

\* the least member of a non-empty set of numbers
Least(S) == CHOOSE x \in S : \A y \in S : x <= y

\* sorted(S) for a set of numbers
RECURSIVE Sorted(_)
Sorted(S) == IF S = {} THEN <<>> ELSE <<Least(S)>> \o Sorted(S \ {Least(S)})

\* the dict d with d[k] = v assigned
Assign(d, k, v) == [x \in DOMAIN d \cup {k} |-> IF x = k THEN v ELSE d[x]]

EmptyDict == <<>>

(***************************************************************************)
(* find_matching_objects, the scan-per-object decoder, for an object       *)
(* prefix other than 'stress_detail_name'.                                 *)
(***************************************************************************)
\* index_pattern.search(line): the number after the leftmost occurrence of
\* the prefix that digits follow, as a set of at most one number
LineIndex(line, object_prefix) ==
    LET starts == {p \in 1..Len(line) :
                     /\ MatchesAt(line, object_prefix, p)
                     /\ p + Len(object_prefix) <= Len(line)
                     /\ IsDigit(Char(line, p + Len(object_prefix)))}
        p == Least(starts)
        from == p + Len(object_prefix)
    IN IF starts = {} THEN {}
       ELSE {DigitsToNat(SubSeq(line, from, AfterDigits(line, from) - 1))}

ScanIndexSet(ls, object_prefix) ==
    UNION {LineIndex(ls[j], object_prefix) : j \in 1..Len(ls)}

\* the lines that mention the object name, in document order
RECURSIVE RelevantLines(_, _)
RelevantLines(ls, obj_name) ==
    IF ls = <<>> THEN <<>>
    ELSE (IF Contains(Lower(Head(ls)), Lower(obj_name)) THEN <<Head(ls)>> ELSE <<>>)
         \o RelevantLines(Tail(ls), obj_name)

\* the replacement of each token of a template: the index for a token that
\* reads index, the object name for every other token
ScanReplacements(key_template, index, obj_name) ==
    LET tokens == Tokens(key_template)
    IN [tok \in {tokens[j] : j \in 1..Len(tokens)} |->
          IF Lower(tok) = "index" THEN NatToStr(index) ELSE obj_name]

\* the (resolved_key, internal) pairs of the templated entries of the
\* reference section, in its order
RECURSIVE ScanPatterns(_, _, _)
ScanPatterns(ref_lib, index, obj_name) ==
    IF ref_lib = <<>> THEN <<>>
    ELSE LET e == Head(ref_lib)
             templated == Contains(e.key, "<") /\ Contains(e.key, ">")
         IN (IF templated /\ e.internal_name # ""
             THEN <<[resolved_key |-> resolve_placeholders(e.key,
                                        ScanReplacements(e.key, index, obj_name)),
                     internal |-> e.internal_name]>>
             ELSE <<>>)
            \o ScanPatterns(Tail(ref_lib), index, obj_name)

\* a deliberately wrong key pattern that does not ask for the delimiter
\* right after the key: C29 must tell it apart
KeyMatches_Loose(line, resolved_key) ==
    {p \in 1..Len(line) :
        /\ MatchesAt(line, resolved_key, p)
        /\ \E q \in p + Len(resolved_key)..Len(line) - 1 : Char(line, q) \in {":", "="}}

\* pattern.search(line) for {resolved_key}\s*[:=]\s*(.+), letter case
\* ignored: the positions where the key, optional blanks, a delimiter and at
\* least one more character follow one another
KeyMatches(line, resolved_key) ==
    {p \in 1..Len(line) :
        /\ MatchesAt(line, resolved_key, p)
        /\ LET q == AfterSpaces(line, p + Len(resolved_key))
           IN q < Len(line) /\ Char(line, q) \in {":", "="}}

\* match.group(1).strip() of the leftmost match
RawValue(line, resolved_key) ==
    LET p == Least(KeyMatches(line, resolved_key))
        q == AfterSpaces(line, p + Len(resolved_key))
    IN Strip(SubSeq(line, q + 1, Len(line)), Whitespace)

\* re.split(r"[;,]", raw_val, maxsplit=1)[0].strip()
CleanValue(raw_val) ==
    LET cuts == {j \in 1..Len(raw_val) : Char(raw_val, j) \in {";", ","}}
    IN Strip(IF cuts = {} THEN raw_val ELSE SubSeq(raw_val, 1, Least(cuts) - 1), Whitespace)

\* the inner loop of step 4: every pattern that matches the line assigns the
\* field and the name
RECURSIVE ScanMatchLine(_, _, _, _)
ScanMatchLine(fields, line, patterns, obj_name) ==
    IF patterns = <<>> THEN fields
    ELSE LET pt == Head(patterns)
             matched == KeyMatches(line, pt.resolved_key) # {}
             assigned == Assign(Assign(fields, pt.internal,
                                       CleanValue(RawValue(line, pt.resolved_key))),
                                "name", obj_name)
         IN ScanMatchLine(IF matched THEN assigned ELSE fields, line, Tail(patterns), obj_name)

\* the outer loop of step 4 over the relevant lines
RECURSIVE ScanMatchLines(_, _, _, _)
ScanMatchLines(fields, ls, patterns, obj_name) ==
    IF ls = <<>> THEN fields
    ELSE ScanMatchLines(ScanMatchLine(fields, Head(ls), patterns, obj_name),
                        Tail(ls), patterns, obj_name)

\* \b after a run of word characters that ends before position i
AtBoundary(line, i) == i > Len(line) \/ ~IsWordChar(Char(line, i))

\* index_pattern.finditer(line) for @?{prefix}(\d+)\b, prefix 'step': the
\* numbers after the occurrences of the prefix whose digits end at a word
\* boundary
StepLineIndices(line, object_prefix) ==
    LET starts == {p \in 1..Len(line) :
                     /\ MatchesAt(line, object_prefix, p)
                     /\ p + Len(object_prefix) <= Len(line)
                     /\ IsDigit(Char(line, p + Len(object_prefix)))
                     /\ AtBoundary(line, AfterDigits(line, p + Len(object_prefix)))}
    IN {DigitsToNat(SubSeq(line, p + Len(object_prefix),
                           AfterDigits(line, p + Len(object_prefix)) - 1)) : p \in starts}

StepIndexSet(ls, object_prefix) ==
    UNION {StepLineIndices(ls[j], object_prefix) : j \in 1..Len(ls)}

\* suffix_pattern.search(line) for (?:{prefix})?{index}\b : the digits of
\* the index somewhere in the line, a word boundary after them
SuffixMatches(line, index) ==
    \E p \in 1..Len(line) :
        /\ MatchesAt(line, NatToStr(index), p)
        /\ AtBoundary(line, p + Len(NatToStr(index)))

\* re.search of {prefix}{index}[_=], letter case ignored; the pattern with
\* a leading @ matches a subset of these lines
FallbackMatches(line, object_prefix, index) ==
    \E p \in 1..Len(line) :
        /\ MatchesAt(line, object_prefix \o NatToStr(index), p)
        /\ p + Len(object_prefix \o NatToStr(index)) <= Len(line)
        /\ Char(line, p + Len(object_prefix \o NatToStr(index))) \in {"_", "="}

\* the first occurrence of every line of ls that is not in seen, in order
RECURSIVE Deduped(_, _)
Deduped(ls, seen) ==
    IF ls = <<>> THEN <<>>
    ELSE IF Head(ls) \in seen THEN Deduped(Tail(ls), seen)
    ELSE <<Head(ls)>> \o Deduped(Tail(ls), seen \cup {Head(ls)})

\* the lines the suffix pattern finds, in document order
RECURSIVE SuffixLines(_, _)
SuffixLines(ls, index) ==
    IF ls = <<>> THEN <<>>
    ELSE (IF SuffixMatches(Head(ls), index) THEN <<Head(ls)>> ELSE <<>>)
         \o SuffixLines(Tail(ls), index)

\* the lines a fallback pattern finds, in document order
RECURSIVE FallbackLines(_, _, _)
FallbackLines(ls, object_prefix, index) ==
    IF ls = <<>> THEN <<>>
    ELSE (IF FallbackMatches(Head(ls), object_prefix, index) THEN <<Head(ls)>> ELSE <<>>)
         \o FallbackLines(Tail(ls), object_prefix, index)

\* the relevant lines of a step: the lines the suffix pattern finds, then
\* those the fallback patterns find, every line once
StepRelevantLines(ls, object_prefix, index) ==
    Deduped(SuffixLines(ls, index) \o FallbackLines(ls, object_prefix, index), {})

\* the loop of step 2 over the sorted indices: an object enters the result
\* with its first assignment
RECURSIVE ScanObjects(_, _, _, _)
ScanObjects(ls, object_prefix, ref_lib, indices) ==
    IF indices = <<>> THEN <<>>
    ELSE LET index == Head(indices)
             obj_name == object_prefix \o NatToStr(index)
             relevant_lines == IF Lower(object_prefix) = "step"
                               THEN StepRelevantLines(ls, object_prefix, index)
                               ELSE RelevantLines(ls, obj_name)
             fields == ScanMatchLines(EmptyDict, relevant_lines,
                                      ScanPatterns(ref_lib, index, obj_name), obj_name)
         IN (IF fields = EmptyDict THEN <<>> ELSE <<fields>>)
            \o ScanObjects(ls, object_prefix, ref_lib, Tail(indices))

find_matching_objects(ls, object_prefix, ref_lib) ==
    ScanObjects(ls, object_prefix, ref_lib,
                Sorted(IF Lower(object_prefix) = "step"
                       THEN StepIndexSet(ls, object_prefix)
                       ELSE ScanIndexSet(ls, object_prefix)))

(***************************************************************************)
(* find_matching_objects_from_dict, the single-pass decoder.               *)
(***************************************************************************)
\* fish_pattern.search(s) for
\*   fish\s+set\s+@([\w\d_]+)\s*=\s*['"]?(.*?)['"]?\s*$   (letter case ignored):
\* the positions where the words, the variable and the equals sign follow
\* one another; the rest of the line always matches
FishMatches(s) ==
    {p \in 1..Len(s) :
        /\ MatchesAt(s, "fish", p)
        /\ LET a == AfterSpaces(s, p + 4)
               b == AfterSpaces(s, a + 3)
               c == AfterWord(s, b + 1)
               d == AfterSpaces(s, c)
           IN /\ a > p + 4
              /\ MatchesAt(s, "set", a)
              /\ b > a + 3
              /\ b <= Len(s) /\ Char(s, b) = "@"
              /\ c > b + 1
              /\ d <= Len(s) /\ Char(s, d) = "="}

\* the two groups of the leftmost match: the variable, and the value
\* without one leading quote, trailing blanks and one trailing quote
FishGroups(s) ==
    LET p == Least(FishMatches(s))
        a == AfterSpaces(s, p + 4)
        b == AfterSpaces(s, a + 3)
        c == AfterWord(s, b + 1)
        d == AfterSpaces(s, c)
        rest == SubSeq(s, AfterSpaces(s, d + 1), Len(s))
        unquoted == IF rest # "" /\ Head(rest) \in {"'", "\""} THEN Tail(rest) ELSE rest
        trimmed == RStrip(unquoted, Whitespace)
        raw == IF trimmed # "" /\ Char(trimmed, Len(trimmed)) \in {"'", "\""}
               THEN SubSeq(trimmed, 1, Len(trimmed) - 1)
               ELSE trimmed
    IN [var |-> SubSeq(s, b + 1, c - 1), raw |-> raw]

\* fish_dict: the lower-cased variable of every assignment line with the
\* value of its last assignment
RECURSIVE FishDict(_, _)
FishDict(fish_dict, ls) ==
    IF ls = <<>> THEN fish_dict
    ELSE LET s == Strip(Head(ls), Whitespace)
             g == FishGroups(s)
         IN FishDict(IF FishMatches(s) = {} THEN fish_dict
                     ELSE Assign(fish_dict, Lower(g.var), Strip(g.raw, Whitespace)),
                     Tail(ls))

\* idx_re.match(key) for ^{pref}(\d+)_ : the index, as a set of at most one
KeyIndex(key, pref) ==
    LET from == Len(pref) + 1
        to == AfterDigits(key, from)
    IN IF StartsWith(key, pref) /\ to > from /\ to <= Len(key) /\ Char(key, to) = "_"
       THEN {DigitsToNat(SubSeq(key, from, to - 1))}
       ELSE {}

DictIndexSet(fish_dict, pref) == UNION {KeyIndex(key, pref) : key \in DOMAIN fish_dict}

\* every token of the template replaced by the object key, one
\* str.replace per token found
RECURSIVE ReplaceTokens(_, _, _)
ReplaceTokens(resolved, tokens, obj_key) ==
    IF tokens = <<>> THEN resolved
    ELSE ReplaceTokens(ReplaceStr(resolved, "<" \o Head(tokens) \o ">", obj_key),
                       Tail(tokens), obj_key)

\* the loop over the entries of the reference section for one object
RECURSIVE DictFields(_, _, _, _)
DictFields(data, fish_dict, ref_section, obj_key) ==
    IF ref_section = <<>> THEN data
    ELSE LET e == Head(ref_section)
             tpl == e.outputfile_name
             resolved == Lower(ReplaceTokens(tpl, Tokens(tpl), obj_key))
             used == tpl # "" /\ e.internal_name # "" /\ Contains(tpl, "<")
         IN DictFields(IF used /\ resolved \in DOMAIN fish_dict
                       THEN Assign(data, e.internal_name, fish_dict[resolved])
                       ELSE data,
                       fish_dict, Tail(ref_section), obj_key)

\* the loop over the sorted indices: an object with no field is left out
RECURSIVE DictObjects(_, _, _, _)
DictObjects(fish_dict, pref, ref_section, indices) ==
    IF indices = <<>> THEN <<>>
    ELSE LET obj_key == pref \o NatToStr(Head(indices))
             data == DictFields(EmptyDict, fish_dict, ref_section, obj_key)
         IN (IF data = EmptyDict THEN <<>> ELSE <<Assign(data, "name", obj_key)>>)
            \o DictObjects(fish_dict, pref, ref_section, Tail(indices))

find_matching_objects_from_dict(ls, object_prefix, ref_section) ==
    LET fish_dict == FishDict(EmptyDict, ls)
        pref == Lower(object_prefix)
    IN DictObjects(fish_dict, pref, ref_section, Sorted(DictIndexSet(fish_dict, pref)))

(***************************************************************************)
(* Encoding and decoding as a state machine: a list of Domain entities, a  *)
(* field-mapping table and a reference section are drawn first; the list   *)
(* is encoded with add_section_recursive by position, then the lines are   *)
(* decoded with find_matching_objects and, after it, with                  *)
(* find_matching_objects_from_dict.                                        *)
(***************************************************************************)
\* longest list of Domain entities that is encoded
MaxDomains == 2

DomainEntities ==
    {Obj(("a" :> PyInt(5)) @@ ("b" :> PyStr("x"))),
     Obj(("a" :> PyFloat(FALSE, "5", 0)) @@ ("b" :> PyStr("p, q"))),
     Obj(("a" :> PyNone) @@ ("b" :> PyBool(TRUE)))}

\* the reference section, its templates written with the name token or
\* with the index token
NameSection ==
    <<[key |-> "<domain_name>_a", outputfile_name |-> "<domain_name>_a", internal_name |-> "alpha"],
      [key |-> "<domain_name>_b", outputfile_name |-> "<domain_name>_b", internal_name |-> "beta"]>>

IndexSection ==
    <<[key |-> "Domain<index>_a", outputfile_name |-> "Domain<index>_a", internal_name |-> "alpha"],
      [key |-> "Domain<index>_b", outputfile_name |-> "Domain<index>_b", internal_name |-> "beta"]>>

\* a section one of whose fields has the internal name "name"
TitledSection ==
    <<[key |-> "<domain_name>_a", outputfile_name |-> "<domain_name>_a", internal_name |-> "name"],
      [key |-> "<domain_name>_b", outputfile_name |-> "<domain_name>_b", internal_name |-> "beta"]>>

RefSections == {NameSection, IndexSection, TitledSection}

\* the table whose keys are the output patterns of the section instantiated
\* for Domain<i>
FixedTable ==
    <<<<"Domain{index}_a", "a", PyInt(0)>>, <<"Domain{index}_b", "b", PyStr("")>>>>

\* tables that assign one key twice, leave a pattern out, use a key the
\* section does not know, or give only the first entity a known key
FieldTables ==
    {FixedTable,
     <<<<"Domain{index}_a", "a", PyInt(0)>>, <<"Domain{index}_a", "b", PyStr("")>>>>,
     <<<<"Domain{index}_a", "a", PyInt(0)>>>>,
     <<<<"Domain{index}_c", "a", PyInt(0)>>>>,
     <<<<"Domain1_a", "a", PyInt(0)>>, <<"Domain{index}_c", "b", PyStr("")>>>>}

ObjectPrefix == "Domain"

InitCodec ==
    /\ lines = <<>>
    /\ prefix \in Prefixes
    /\ \E collection \in SeqsUpTo(DomainEntities, MaxDomains),
          field_mappings \in FieldTables,
          ref_section \in RefSections :
         call = [op |-> "input", collection |-> collection,
                 field_mappings |-> field_mappings, ref_section |-> ref_section,
                 scanned |-> <<>>]
    /\ ret = Returned(PyNone)

\* add_section_recursive("Domain", collection, field_mappings)
EncodeDomains ==
    /\ call.op = "input"
    /\ lines' = SectionRecursiveLines(lines, prefix, "Domain", call.collection,
                                      call.field_mappings, EmptyLib, TRUE, "")
    /\ call' = [call EXCEPT !.op = "encoded"]
    /\ ret' = Returned(PyNone)
    /\ UNCHANGED prefix

\* find_matching_objects(lines, "Domain", ref_section)
CallFindMatchingObjects ==
    /\ call.op = "encoded"
    /\ LET found == find_matching_objects(lines, ObjectPrefix, call.ref_section)
       IN /\ ret' = Returned(found)
          /\ call' = [call EXCEPT !.op = "find_matching_objects", !.scanned = found]
    /\ UNCHANGED <<lines, prefix>>

\* find_matching_objects_from_dict(lines, "Domain", ref_section)
CallFindMatchingObjectsFromDict ==
    /\ call.op = "find_matching_objects"
    /\ ret' = Returned(find_matching_objects_from_dict(lines, ObjectPrefix, call.ref_section))
    /\ call' = [call EXCEPT !.op = "find_matching_objects_from_dict"]
    /\ UNCHANGED <<lines, prefix>>

NextCodec ==
    \/ EncodeDomains
    \/ CallFindMatchingObjects
    \/ CallFindMatchingObjectsFromDict

SpecCodec == InitCodec /\ [][NextCodec]_vars

Decoded == call.op \in {"find_matching_objects", "find_matching_objects_from_dict"}

\* the literals of the lines that set the key, in document order
RECURSIVE LiteralsFor(_, _)
LiteralsFor(ls, key) ==
    LET head == prefix \o "set @" \o key \o "= "
    IN IF ls = <<>> THEN <<>>
       ELSE (IF StartsWith(Head(ls), head)
             THEN <<SubSeq(Head(ls), Len(head) + 1, Len(Head(ls)))>> ELSE <<>>)
            \o LiteralsFor(Tail(ls), key)

\* C12: round trip.  N Domain entities encoded by position with the fixed
\* table and decoded with the same reference section and prefix "Domain"
\* give exactly N entity maps, one per entity in order, in which every
\* mapped field equals, as a string, the literal emitted for it.
C12_RoundTrip ==
    (Decoded /\ call.field_mappings = FixedTable /\ call.ref_section = NameSection)
    => /\ Len(ret.v) = Len(call.collection)
       /\ \A i \in 1..Len(call.collection) :
            /\ i <= Len(ret.v)
            /\ {"alpha", "beta"} \subseteq DOMAIN ret.v[i]
            /\ <<ret.v[i]["alpha"]>> = LiteralsFor(lines, "Domain" \o NatToStr(i) \o "_a")
            /\ <<ret.v[i]["beta"]>> = LiteralsFor(lines, "Domain" \o NatToStr(i) \o "_b")


\* the entities of a decoder's result, as a set
EntitySet(found) == {found[j] : j \in 1..Len(found)}

\* C13: for a document the encoder produced, a prefix and a reference
\* section, find_matching_objects and find_matching_objects_from_dict
\* return the same set of entities: same 'name', same internal field
\* names, same value strings.
C13_DecodersAgree ==
    call.op = "find_matching_objects_from_dict"
    => EntitySet(ret.v) = EntitySet(call.scanned)

\* the key a reference entry resolves to for the identifier of an entity
EntryKey(r, digits) == ObjectPrefix \o digits \o SubSeq(r.key, Len(r.key) - 1, Len(r.key))

\* the digits that follow the prefix in the name of a decoded entity
NameDigits(e) == SubSeq(e["name"], Len(ObjectPrefix) + 1, Len(e["name"]))

\* C14: in find_matching_objects the first line that matches a resolved key
\* gives the value of the field; later lines that match the same key do
\* not overwrite it.
C14_FirstMatchWins ==
    call.op = "find_matching_objects"
    => \A j \in 1..Len(ret.v), k \in 1..Len(call.ref_section) :
         LET e == ret.v[j]
             r == call.ref_section[k]
             lits == LiteralsFor(lines, EntryKey(r, NameDigits(e)))
         IN (r.internal_name # "name" /\ lits # <<>>)
            => /\ r.internal_name \in DOMAIN e
               /\ e[r.internal_name] = CleanValue(Head(lits))

\* C15: in both decoders an identifier for which no templated key matches
\* a line gives no entity, a templated key without a matching line is
\* absent from the map of the entity, and every returned entity has at
\* least one recovered field besides its name.
C15_OnlyMatchedFields ==
    Decoded
    => \A j \in 1..Len(ret.v) :
         LET e == ret.v[j]
         IN /\ "name" \in DOMAIN e
            /\ DOMAIN e \ {"name"} # {}
            /\ \A k \in 1..Len(call.ref_section) :
                 LET r == call.ref_section[k]
                 IN r.internal_name \in DOMAIN e \ {"name"}
                    => LiteralsFor(lines, EntryKey(r, NameDigits(e))) # <<>>


(***************************************************************************)
(* The line accumulator: build, sealing and the order of the lines.        *)
(***************************************************************************)
\* text consists of the lines of ls in order, a newline between neighbours
RECURSIVE IsJoinOf(_, _)
IsJoinOf(text, ls) ==
    IF ls = <<>> THEN text = ""
    ELSE IF Len(ls) = 1 THEN text = ls[1]
    ELSE /\ StartsWith(text, ls[1] \o "\n")
         /\ IsJoinOf(SubSeq(text, Len(ls[1]) + 2, Len(text)), Tail(ls))

\* C16: build is pure and idempotent.  It leaves the lines and the prefix
\* as they are, returns the lines joined by newline, and a build that
\* directly follows a build returns the same text.
C16_BuildPure ==
    [][call'.op = "build"
       => /\ lines' = lines
          /\ prefix' = prefix
          /\ ~ret'.raised
          /\ ret'.v.t = "str"
          /\ IsJoinOf(ret'.v.s, lines)
          /\ (call.op = "build" => ret'.v = ret.v)]_vars

\* a build that directly followed a build of two or more lines
C16_Witness ==
    /\ call.op = "build"
    /\ call.earlier = call.built
    /\ call.before = lines
    /\ Len(lines) >= 2
    /\ ret.v.s = call.built[1]

\* C17: there is no seal.  Once build has been called every appending
\* operation is still accepted, and the text of an earlier build is a
\* prefix of the text of every later build of the same builder.
C17_NoSeal ==
    [][call.built # <<>>
       => /\ call'.op \in {"add_line", "newline", "add_section_header", "subheading", "config_line"}
             => /\ ~ret'.raised
                /\ Len(lines') > Len(lines)
                /\ SubSeq(lines', 1, Len(lines)) = lines
          /\ call'.op = "build"
             => StartsWith(ret'.v.s, call.built[1])]_vars

\* a build after an append that followed a build: its text is longer than
\* the text of the build before it
C17_Witness ==
    /\ call.op = "build"
    /\ call.earlier # <<>>
    /\ call.earlier[1] # ""
    /\ Len(ret.v.s) > Len(call.earlier[1])

\* C18: the list of lines is append-only and keeps its order under every
\* operation of a builder, and two config_line calls with the same key give
\* two lines, in the order of the calls.
C18_AppendOnly ==
    [][call'.op # "__init__"
       => /\ prefix' = prefix
          /\ Len(lines') >= Len(lines)
          /\ SubSeq(lines', 1, Len(lines)) = lines
          /\ (call.op = "config_line" /\ call'.op = "config_line" /\ call'.key = call.key)
             => lines' = call.before
                         \o <<ConfigLineText(prefix, call.key, call.value),
                              ConfigLineText(prefix, call'.key, call'.value)>>]_vars

\* two lines that set the same key to different values, one after the other
C18_Witness ==
    /\ call.op = "config_line"
    /\ Len(lines) >= 2
    /\ call.before = SubSeq(lines, 1, Len(lines) - 1)
    /\ StartsWith(lines[Len(lines) - 1], prefix \o "set @" \o call.key \o "=")
    /\ StartsWith(lines[Len(lines)], prefix \o "set @" \o call.key \o "=")
    /\ lines[Len(lines) - 1] # lines[Len(lines)]


(***************************************************************************)
(* resolve_placeholders as a state machine: a template, put together from  *)
(* literal parts and <token> parts, and a replacement map are drawn        *)
(* first, one call resolves the template.                                  *)
(***************************************************************************)
\* longest template, in parts
MaxParts == 3

Lit(s) == [lit |-> TRUE, s |-> s]
Tok(s) == [lit |-> FALSE, s |-> s]

TemplateParts ==
    {Lit("a_"), Lit(">"), Lit("<>"), Lit("x<"), Tok("index"), Tok("domain_name"), Tok("zz")}

ReplacementMaps ==
    {EmptyDict,
     "index" :> "1",
     "domain_name" :> "Domain1",
     ("index" :> "1") @@ ("domain_name" :> "<index>")}

\* the text of a part, and of a list of parts
PartText(p) == IF p.lit THEN p.s ELSE "<" \o p.s \o ">"

RECURSIVE TemplateOf(_)
TemplateOf(parts) == IF parts = <<>> THEN "" ELSE PartText(Head(parts)) \o TemplateOf(Tail(parts))

InitResolve ==
    /\ lines = <<>>
    /\ prefix = ""
    /\ \E parts \in UNION {[1..n -> TemplateParts] : n \in 0..MaxParts},
          replacements \in ReplacementMaps :
         call = [op |-> "input", parts |-> parts, replacements |-> replacements]
    /\ ret = Returned(PyNone)

CallResolvePlaceholders ==
    /\ call.op = "input"
    /\ ret' = Returned(PyStr(resolve_placeholders(TemplateOf(call.parts), call.replacements)))
    /\ call' = [call EXCEPT !.op = "resolve_placeholders"]
    /\ UNCHANGED <<lines, prefix>>

NextResolve == CallResolvePlaceholders

SpecResolve == InitResolve /\ [][NextResolve]_vars

\* the parts with every <token> span whose token is a key replaced; open
\* says that a "<" before the part has not met its ">" yet, so that the part
\* lies inside a longer span
RECURSIVE Replaced(_, _, _)
Replaced(parts, replacements, open) ==
    IF parts = <<>> THEN ""
    ELSE LET p == Head(parts)
             isSpan == ~p.lit /\ ~open
             stillOpen == IF Contains(PartText(p), ">") THEN FALSE
                          ELSE open \/ EndsWith(p.s, "<")
         IN (IF isSpan /\ p.s \in DOMAIN replacements THEN replacements[p.s] ELSE PartText(p))
            \o Replaced(Tail(parts), replacements, stillOpen)

\* the tokens of the <token> spans of the parts
RECURSIVE SpanTokens(_, _)
SpanTokens(parts, open) ==
    IF parts = <<>> THEN {}
    ELSE LET p == Head(parts)
             stillOpen == IF Contains(PartText(p), ">") THEN FALSE
                          ELSE open \/ EndsWith(p.s, "<")
         IN (IF ~p.lit /\ ~open THEN {p.s} ELSE {}) \cup SpanTokens(Tail(parts), stillOpen)

\* C19: resolve_placeholders replaces every <token> span whose token is a
\* key of the map by the value of the key and leaves every other span and
\* every other character as it is; with no token among the keys, or an
\* empty map, it returns the template unchanged.
C19_ReplacesKeyedSpans ==
    call.op = "resolve_placeholders"
    => /\ ~ret.raised
       /\ ret.v = PyStr(Replaced(call.parts, call.replacements, FALSE))
       /\ SpanTokens(call.parts, FALSE) \cap DOMAIN call.replacements = {}
          => ret.v = PyStr(TemplateOf(call.parts))

\* a template with a replaced span, a span whose token is not a key, and
\* other characters
C19_Witness ==
    /\ call.op = "resolve_placeholders"
    /\ call.parts = <<Lit("a_"), Tok("index"), Tok("zz")>>
    /\ call.replacements = ("index" :> "1")
    /\ ret.v = PyStr("a_1<zz>")


\* C20: the sentinel has the highest priority.  For every key, Octree_Mesh
\* and the direction keys included, config_line(key, "notfound") appends
\* exactly the line {prefix}set @{key}= '' and nothing else.
C20_SentinelFirst ==
    (call.op = "config_line" /\ call.value = PyStr("notfound"))
    => lines = Append(call.before, prefix \o "set @" \o call.key \o "= ''")

\* the sentinel passed for a direction key, after a line that was there
C20_Witness ==
    /\ call.op = "config_line"
    /\ call.value = PyStr("notfound")
    /\ call.key = "fault1_normal_direction"
    /\ prefix = "fish "
    /\ Len(call.before) = 1
    /\ lines = Append(call.before, "fish set @fault1_normal_direction= ''")


\* C21: field access is attribute-or-mapping.  For an entity given as a
\* mapping that contains the looked-up field, get_value returns the stored
\* value; the default is returned only when the field is absent.
C21_MappingAccess ==
    (call.op = "get_value" /\ call.obj.kind = "dict"
       /\ ResolvedField(call.key, call.ref_lib) \in DOMAIN call.obj.attrs)
    => ret = Returned(call.obj.attrs[ResolvedField(call.key, call.ref_lib)])


\* C22, as stated: subheading(title) appends exactly two lines, the rule
\* ;-------------------- and ;-- {title}, and nothing else.
C22_TwoLines ==
    call.op = "subheading"
    => lines = call.before \o <<";--------------------", ";-- " \o call.title>>

\* C22, amended: subheading(title) appends exactly three lines, the rule
\* ;--------------------, then ;-- {title}, then the rule again, and
\* nothing else.
C22_ThreeLines ==
    call.op = "subheading"
    => /\ ~ret.raised
       /\ lines = call.before \o <<";--------------------", ";-- " \o call.title,
                                   ";--------------------">>

\* a subheading appended to a builder that held a line
C22_Witness ==
    /\ call.op = "subheading"
    /\ call.title = "Mesh"
    /\ call.before = <<"; note">>
    /\ lines = <<"; note", ";--------------------", ";-- Mesh", ";--------------------">>


(***************************************************************************)
(* The encoders that pick entities by name: add_config_line,               *)
(* add_stress_details_section_grouped and add_details_by_name.  Each is    *)
(* applied once to inputs drawn first.  An encoder's outcome is            *)
(* [raised, lines]: whether the call raised, and the lines the builder     *)
(* holds afterwards.                                                       *)
(***************************************************************************)
\* longest collection of named entities
MaxNamed == 2

Outcome(raised, ls) == [raised |-> raised, lines |-> ls]

\* str(getattr(item, "name", "")).strip().lower() == identifier.lower(),
\* [raised, v] with v a boolean
NameEquals(item, identifier) ==
    LET got == GetAttr(item, "name", PyStr(""))
    IN IF got.raised THEN [raised |-> TRUE, v |-> FALSE]
       ELSE [raised |-> FALSE,
             v |-> Lower(Strip(PyStrOf(got.v), Whitespace)) = Lower(identifier)]

RECURSIVE AddConfigLineFrom(_, _, _, _, _, _, _, _, _, _)
AddConfigLineFrom(ls, pfx, key, collection, identifier, field, use_lib, ref_lib, default, i) ==
    IF i > Len(collection) THEN Outcome(FALSE, Append(ls, ConfigLineText(pfx, key, default)))
    ELSE LET item == collection[i]
             eq == NameEquals(item, identifier)
             val == IF use_lib THEN mapped_value(item, field, ref_lib, default)
                    ELSE GetAttr(item, field, default)
         IN IF eq.raised THEN Outcome(TRUE, ls)
            ELSE IF eq.v
            THEN (IF val.raised THEN Outcome(TRUE, ls)
                  ELSE Outcome(FALSE, Append(ls, ConfigLineText(pfx, key, val.v))))
            ELSE AddConfigLineFrom(ls, pfx, key, collection, identifier, field,
                                   use_lib, ref_lib, default, i + 1)

NamedEntities ==
    {Obj(("name" :> PyStr("Alpha")) @@ ("f" :> PyInt(1))),
     Obj(("name" :> PyStr("ALPHA")) @@ ("f" :> PyInt(2))),
     Obj(("name" :> PyStr("Beta")) @@ ("f" :> PyStr("Top"))),
     Obj(("name" :> PyNone) @@ ("f" :> PyInt(4))),
     Obj(("f" :> PyInt(5)))}

InitAddConfigLine ==
    /\ lines = <<>>
    /\ prefix = ""
    /\ \E collection \in SeqsUpTo(NamedEntities, MaxNamed),
          identifier \in {"alpha", "BETA", "Gamma"},
          use_lib \in BOOLEAN,
          default \in {PyNone, PyStr("d")} :
         call = [op |-> "input", key |-> "k", collection |-> collection,
                 identifier |-> identifier, field |-> "f", use_lib |-> use_lib,
                 ref_lib |-> EmptyLib, default |-> default, before |-> <<>>]
    /\ ret = Returned(PyNone)

\* add_config_line(key, collection, identifier, field, ref_lib, default);
\* use_lib says that a reference library was passed
add_config_line ==
    /\ call.op = "input"
    /\ LET out == AddConfigLineFrom(lines, prefix, call.key, call.collection, call.identifier,
                                    call.field, call.use_lib, call.ref_lib, call.default, 1)
       IN /\ lines' = out.lines
          /\ ret' = IF out.raised THEN Raised ELSE Returned(PyNone)
    /\ call' = [call EXCEPT !.op = "add_config_line"]
    /\ UNCHANGED prefix

NextAddConfigLine == add_config_line

SpecAddConfigLine == InitAddConfigLine /\ [][NextAddConfigLine]_vars

\* the positions of the entities whose name is a string equal to the
\* identifier, letter case ignored
NamedLike(collection, identifier) ==
    {i \in 1..Len(collection) :
        /\ "name" \in DOMAIN collection[i].attrs
        /\ collection[i].attrs["name"].t = "str"
        /\ Lower(collection[i].attrs["name"].s) = Lower(identifier)}

\* C23: add_config_line appends exactly one line in every case.  It uses the
\* first entity in collection order whose name equals the identifier,
\* letter case ignored, and emits the value of its field (coerced by
\* mapped_value when a reference library is given); when no entity matches
\* the line carries the default.
C23_OneLine ==
    call.op = "add_config_line"
    => LET hits == NamedLike(call.collection, call.identifier)
           item == call.collection[CHOOSE i \in hits : \A j \in hits : i <= j]
           stored == IF call.field \in DOMAIN item.attrs THEN item.attrs[call.field]
                     ELSE call.default
           coerced == mapped_value(item, call.field, call.ref_lib, call.default)
       IN /\ ~ret.raised
          /\ Len(lines) = Len(call.before) + 1
          /\ hits = {} => lines = Append(call.before, ConfigLineText(prefix, call.key, call.default))
          /\ (hits # {} /\ ~call.use_lib)
             => lines = Append(call.before, ConfigLineText(prefix, call.key, stored))
          /\ (hits # {} /\ call.use_lib)
             => /\ ~coerced.raised
                /\ lines = Append(call.before, ConfigLineText(prefix, call.key, coerced.v))


\* the group name add_details_by_name gives an entity: raw_value.value for
\* an enum member, else str(raw_value).strip(); "" when the entity is
\* passed over.  The names the model passes are strings, None or members of
\* an enum whose values are strings.
DetailName(raw_value) ==
    IF IsBubbleEnum(raw_value) THEN EnumValue(raw_value.t, raw_value.s)
    ELSE Strip(PyStrOf(raw_value), Whitespace)

\* the group names of the entities, by position; raised when reading a name
\* raises
RECURSIVE DetailNames(_, _, _)
DetailNames(collection, name_field, i) ==
    IF i > Len(collection) THEN [raised |-> FALSE, v |-> <<>>]
    ELSE LET got == GetAttr(collection[i], name_field, PyStr(""))
             rest == DetailNames(collection, name_field, i + 1)
         IN IF got.raised \/ rest.raised THEN [raised |-> TRUE, v |-> <<>>]
            ELSE [raised |-> FALSE, v |-> <<DetailName(got.v)>> \o rest.v]

\* the positions that open a group: the first entity of each name
GroupHeads(names) ==
    {i \in 1..Len(names) : names[i] # "" /\ \A j \in 1..(i - 1) : names[j] # names[i]}

\* the lines of one block after its subheading: one line per mapping
RECURSIVE DetailFields(_, _, _, _, _, _, _)
DetailFields(ls, pfx, item, mappings, use_lib, ref_lib, j) ==
    IF j > Len(mappings) THEN Outcome(FALSE, Append(ls, ""))
    ELSE LET mapping == mappings[j]
             source == IF Len(mapping) = 4 THEN mapping[4] ELSE item
             val == IF use_lib THEN mapped_value(source, mapping[2], ref_lib, mapping[3])
                    ELSE GetAttr(source, mapping[2], mapping[3])
         IN IF val.raised THEN Outcome(TRUE, ls)
            ELSE DetailFields(Append(ls, ConfigLineText(pfx, mapping[1], val.v)), pfx, item,
                              mappings, use_lib, ref_lib, j + 1)

\* the blocks of the groups opened at position i or later
RECURSIVE DetailBlocks(_, _, _, _, _, _, _, _, _, _)
DetailBlocks(ls, pfx, collection, names, mappings_by_name, use_lib, ref_lib, custom_headings, add_subheadings, i) ==
    IF i > Len(collection) THEN Outcome(FALSE, ls)
    ELSE IF i \notin GroupHeads(names) \/ names[i] \notin DOMAIN mappings_by_name
    THEN DetailBlocks(ls, pfx, collection, names, mappings_by_name, use_lib, ref_lib,
                      custom_headings, add_subheadings, i + 1)
    ELSE LET name == names[i]
             heading == IF name \in DOMAIN custom_headings THEN custom_headings[name] ELSE name
             headed == IF add_subheadings THEN ls \o SubheadingLines(heading) ELSE ls
             block == DetailFields(headed, pfx, collection[i], mappings_by_name[name],
                                   use_lib, ref_lib, 1)
         IN IF block.raised THEN block
            ELSE DetailBlocks(block.lines, pfx, collection, names, mappings_by_name, use_lib,
                              ref_lib, custom_headings, add_subheadings, i + 1)

AddDetailsByName(ls, pfx, collection, mappings_by_name, use_lib, ref_lib, name_field, custom_headings, add_subheadings) ==
    LET names == DetailNames(collection, name_field, 1)
    IN IF names.raised THEN Outcome(TRUE, ls)
       ELSE DetailBlocks(ls, pfx, collection, names.v, mappings_by_name, use_lib, ref_lib,
                         custom_headings, add_subheadings, 1)

DetailEntities ==
    {Obj(("name" :> PyStr("Stoping")) @@ ("file" :> PyStr("a.dxf"))),
     Obj(("name" :> PyStr("stoping")) @@ ("file" :> PyStr("b.dxf"))),
     Obj(("name" :> PyEnum("DomainType", "Rock", FALSE)) @@ ("file" :> PyStr("c.dxf"))),
     Obj(("name" :> PyStr("rock")) @@ ("file" :> PyStr("d.dxf"))),
     Obj(("name" :> PyStr("Other")) @@ ("file" :> PyStr("e.dxf")))}

\* mapping lists for the names Stoping, stoping and rock; the second table
\* has a list only for Stoping, with a mapping that names its own source
DetailMappings ==
    {("Stoping" :> <<<<"stoping_geometry_filename", "file", PyStr("")>>>>)
       @@ ("stoping" :> <<<<"stoping_geometry_filename", "file", PyStr("")>>>>)
       @@ ("rock" :> <<<<"rock_geometry_filename", "file", PyStr("")>>>>),
     ("Stoping" :> <<<<"_include_stoping", "flag", PyBool(FALSE), Obj(("flag" :> PyBool(TRUE)))>>,
                     <<"stoping_geometry_filename", "file", PyStr("")>>>>)}

InitDetails ==
    /\ lines = <<>>
    /\ prefix = ""
    /\ \E collection \in SeqsUpTo(DetailEntities, MaxNamed),
          mappings_by_name \in DetailMappings,
          use_lib \in BOOLEAN,
          custom_headings \in {EmptyDict, "Stoping" :> "Stope"},
          add_subheadings \in BOOLEAN :
         call = [op |-> "input", collection |-> collection, mappings_by_name |-> mappings_by_name,
                 use_lib |-> use_lib, ref_lib |-> EmptyLib, custom_headings |-> custom_headings,
                 add_subheadings |-> add_subheadings, before |-> <<>>]
    /\ ret = Returned(PyNone)

add_details_by_name ==
    /\ call.op = "input"
    /\ LET out == AddDetailsByName(lines, prefix, call.collection, call.mappings_by_name,
                                   call.use_lib, call.ref_lib, "name", call.custom_headings,
                                   call.add_subheadings)
       IN /\ lines' = out.lines
          /\ ret' = IF out.raised THEN Raised ELSE Returned(PyNone)
    /\ call' = [call EXCEPT !.op = "add_details_by_name"]
    /\ UNCHANGED prefix

NextDetails == add_details_by_name

SpecDetails == InitDetails /\ [][NextDetails]_vars

\* the discriminator of an entity after case and enum normalisation
NormalName(item) ==
    LET raw == item.attrs["name"]
    IN Lower(IF IsBubbleEnum(raw) THEN EnumValue(raw.t, raw.s) ELSE raw.s)

\* the number of blank lines of ls: every block ends with one
RECURSIVE BlankCount(_)
BlankCount(ls) ==
    IF ls = <<>> THEN 0 ELSE (IF Head(ls) = "" THEN 1 ELSE 0) + BlankCount(Tail(ls))

\* C24: add_details_by_name groups the entities by the discriminator after
\* case and enum normalisation and emits exactly one block per distinct
\* name that has a mapping list: entities whose names differ only in letter
\* case, or an enum member and its string value, share a group, and names
\* without a mapping list emit nothing.
C24_OneBlockPerName ==
    call.op = "add_details_by_name"
    => LET items == 1..Len(call.collection)
           listed == {i \in items :
                        DetailName(call.collection[i].attrs["name"]) \in DOMAIN call.mappings_by_name}
           groups == {NormalName(call.collection[i]) : i \in listed}
       IN /\ ~ret.raised
          /\ BlankCount(lines) = Cardinality(groups)


\* getattr(item, "name", "").strip().lower(): the lowered name of an entity,
\* raised when reading the name raises or the name is not a string (None
\* and the members of InsituStressType have no strip)
StressName(item) ==
    LET got == GetAttr(item, "name", PyStr(""))
    IN IF got.raised \/ got.v.t # "str" THEN [raised |-> TRUE, v |-> ""]
       ELSE [raised |-> FALSE, v |-> Lower(Strip(got.v.s, Whitespace))]

\* process_field_mapping called with field_name "": the value is read
\* through the reference entry of the key template, else it is the default
StressValue(item, key_template, default, ref_lib) ==
    IF key_template \in DOMAIN ref_lib
    THEN get_value(item, ref_lib[key_template].internal_name, default)
    ELSE default

RECURSIVE StressFields(_, _, _, _, _, _, _)
StressFields(ls, pfx, item, detail, field_mappings, ref_lib, j) ==
    IF j > Len(field_mappings) THEN Append(ls, "")
    ELSE LET output_key == ReplaceStr(field_mappings[j][1], "<stress_detail_name>", detail)
             val == StressValue(item, field_mappings[j][1], field_mappings[j][2], ref_lib)
         IN StressFields(Append(ls, ConfigLineText(pfx, output_key, val)), pfx, item, detail,
                         field_mappings, ref_lib, j + 1)

RECURSIVE StressBlocks(_, _, _, _, _, _, _)
StressBlocks(ls, pfx, stress_detail_names, collection, field_mappings, ref_lib, k) ==
    IF k > Len(stress_detail_names) THEN ls
    ELSE LET detail == stress_detail_names[k]
             group == {i \in 1..Len(collection) : StressName(collection[i]).v = Lower(detail)}
             item == collection[CHOOSE i \in group : \A j \in group : i <= j]
             block == IF group = {} THEN ls
                      ELSE StressFields(ls, pfx, item, detail, field_mappings, ref_lib, 1)
         IN StressBlocks(block, pfx, stress_detail_names, collection, field_mappings, ref_lib, k + 1)

AddStressDetails(ls, pfx, stress_detail_names, collection, field_mappings, ref_lib) ==
    IF \E i \in 1..Len(collection) : StressName(collection[i]).raised THEN Outcome(TRUE, ls)
    ELSE Outcome(FALSE, StressBlocks(ls, pfx, stress_detail_names, collection, field_mappings, ref_lib, 1))

StressEntities ==
    {Obj(("name" :> PyStr("Maximum")) @@ ("gradient" :> PyInt(1))),
     Obj(("name" :> PyStr("maximum")) @@ ("gradient" :> PyInt(2))),
     Obj(("name" :> PyStr("minimum")) @@ ("gradient" :> PyInt(3))),
     Obj(("name" :> PyNone) @@ ("gradient" :> PyInt(4))),
     Obj(("name" :> PyEnum("InsituStressType", "Minimum", FALSE)) @@ ("gradient" :> PyInt(5)))}

StressMappings ==
    <<<<"<stress_detail_name>_gradient", PyInt(0)>>, <<"<stress_detail_name>_plunge", PyInt(0)>>>>

InitStress ==
    /\ lines = <<>>
    /\ prefix = ""
    /\ \E collection \in SeqsUpTo(StressEntities, MaxNamed),
          stress_detail_names \in {<<"maximum", "minimum">>, <<"Minimum", "simple">>},
          ref_lib \in {EmptyLib, "<stress_detail_name>_gradient" :> [internal_name |-> "gradient"]} :
         call = [op |-> "input", collection |-> collection,
                 stress_detail_names |-> stress_detail_names,
                 field_mappings |-> StressMappings, ref_lib |-> ref_lib, before |-> <<>>]
    /\ ret = Returned(PyNone)

add_stress_details_section_grouped ==
    /\ call.op = "input"
    /\ LET out == AddStressDetails(lines, prefix, call.stress_detail_names, call.collection,
                                   call.field_mappings, call.ref_lib)
       IN /\ lines' = out.lines
          /\ ret' = IF out.raised THEN Raised ELSE Returned(PyNone)
    /\ call' = [call EXCEPT !.op = "add_stress_details_section_grouped"]
    /\ UNCHANGED prefix

NextStress == add_stress_details_section_grouped

SpecStress == InitStress /\ [][NextStress]_vars

\* C25: add_stress_details_section_grouped emits, for each canonical name in
\* the given order, exactly one block (a line per field mapping, then a
\* blank line) if and only if the name of at least one entity equals the
\* canonical name, letter case ignored; no block for an absent name; and
\* the call does not raise when the name of an entity is None or an enum
\* member.
C25_OneBlockPerPresentName ==
    call.op = "add_stress_details_section_grouped"
    => LET present == {k \in 1..Len(call.stress_detail_names) :
                         \E i \in 1..Len(call.collection) :
                            /\ call.collection[i].attrs["name"].t = "str"
                            /\ Lower(call.collection[i].attrs["name"].s)
                                 = Lower(call.stress_detail_names[k])}
       IN /\ ~ret.raised
          /\ BlankCount(lines) = Cardinality(present)
          /\ Len(lines) = Cardinality(present) * (Len(call.field_mappings) + 1)


(***************************************************************************)
(* The Model Construction page.  The model the page edits is kept in       *)
(* call.model_construction: the four flags of the optional sections,       *)
(* stoping_enabled and the list model_construction_detail; call.checkbox   *)
(* holds what the four checkboxes returned in the last render.             *)
(***************************************************************************)
\* renders of the page on one model
MaxRenders == 2

\* the optional sections in page order: the flag and the entry of the list
OptionalSections ==
    <<[flag |-> "topo_enabled", entry |-> "topography"],
      [flag |-> "dev_enabled", entry |-> "development"],
      [flag |-> "aoi_enabled", entry |-> "area_of_interest"],
      [flag |-> "hist_enabled", entry |-> "historical"]>>

SectionFlags == {OptionalSections[k].flag : k \in 1..Len(OptionalSections)}

\* the entries appended for the sections from k on whose checkbox is set
RECURSIVE EnabledEntries(_, _)
EnabledEntries(checkbox, k) ==
    IF k > Len(OptionalSections) THEN <<>>
    ELSE (IF checkbox[OptionalSections[k].flag] THEN <<OptionalSections[k].entry>> ELSE <<>>)
         \o EnabledEntries(checkbox, k + 1)

\* a deliberately wrong render that does not clear the list first: C26 must
\* tell it apart
RenderedDetail_Accumulating(detail, checkbox) == detail \o <<"stoping">> \o EnabledEntries(checkbox, 1)

\* model_construction_detail after a render: cleared, then "stoping", then
\* the entries of the enabled sections
RenderedDetail(detail, checkbox) == <<"stoping">> \o EnabledEntries(checkbox, 1)

\* a model as constructed, or as loaded with a list of sections
InitConstruction ==
    /\ lines = <<>>
    /\ prefix = ""
    /\ \E flags \in [SectionFlags -> BOOLEAN],
          detail \in {<<>>, <<"stoping">>, <<"stoping", "historical">>} :
         call = [op |-> "__init__", renders |-> 0, checkbox |-> flags,
                 model_construction |-> [flags |-> flags, stoping_enabled |-> FALSE,
                                         model_construction_detail |-> detail],
                 before |-> detail]
    /\ ret = Returned(PyNone)

render_model_construction_page ==
    \E checkbox \in [SectionFlags -> BOOLEAN] :
        /\ call.renders < MaxRenders
        /\ call' = [op |-> "render_model_construction_page", renders |-> call.renders + 1,
                    checkbox |-> checkbox,
                    model_construction |->
                        [flags |-> checkbox, stoping_enabled |-> TRUE,
                         model_construction_detail |->
                             RenderedDetail(call.model_construction.model_construction_detail,
                                            checkbox)],
                    before |-> call.model_construction.model_construction_detail]
        /\ ret' = Returned(PyNone)
        /\ UNCHANGED <<lines, prefix>>

NextConstruction == render_model_construction_page

SpecConstruction == InitConstruction /\ [][NextConstruction]_vars

\* C26: after every render, model_construction_detail is 'stoping' followed
\* by the enabled optional sections in the order topography, development,
\* area_of_interest, historical, without duplicates; each flag equals its
\* checkbox; the list does not accumulate over repeated renders; with every
\* checkbox set it is the full list of five.
C26_DetailList ==
    call.op = "render_model_construction_page"
    => LET mc == call.model_construction
           box == call.checkbox
           detail == mc.model_construction_detail
       IN /\ detail = <<"stoping">>
                      \o (IF box["topo_enabled"] THEN <<"topography">> ELSE <<>>)
                      \o (IF box["dev_enabled"] THEN <<"development">> ELSE <<>>)
                      \o (IF box["aoi_enabled"] THEN <<"area_of_interest">> ELSE <<>>)
                      \o (IF box["hist_enabled"] THEN <<"historical">> ELSE <<>>)
          /\ \A i, j \in 1..Len(detail) : detail[i] = detail[j] => i = j
          /\ mc.stoping_enabled
          /\ mc.flags = box
          /\ (\A f \in SectionFlags : box[f])
             => detail = <<"stoping", "topography", "development", "area_of_interest",
                           "historical">>

\* a second render with every checkbox set, on a model whose list was
\* already full
C26_Witness ==
    /\ call.op = "render_model_construction_page"
    /\ call.renders = 2
    /\ \A f \in SectionFlags : call.checkbox[f]
    /\ call.before = <<"stoping", "topography", "development", "area_of_interest", "historical">>
    /\ call.model_construction.model_construction_detail = call.before


(***************************************************************************)
(* The Settings page: the zone-size part.  call.settings holds the fields  *)
(* farfieldzonesize, zone_size_number, predefined_zonesize and             *)
(* zonesize_dropdown.  A stored zonesize_dropdown is None or a string; the *)
(* strings the page itself writes are str(f / 2 ** i), kept as             *)
(* DropdownStr(f, i) with the exact value f / 2^i, and a loaded project    *)
(* can hold any other text, kept as PyStr.                                 *)
(***************************************************************************)
\* the largest exponent of the predefined sizes, range(6)
MaxExponent == 5

\* what the far-field number input can return
FarfieldInputs == {0, 10, 48, 200}

DropdownStr(f, i) == [t |-> "str_float", num |-> f, shift |-> i]

\* str(float) texts a loaded project can hold besides those the page writes
LoadedDropdowns == {PyNone, PyStr(""), PyStr("abc"), PyStr("0")}

Pow2(n) == 2 ^ n

\* int.bit_length of a non-negative integer
RECURSIVE bit_length(_)
bit_length(n) == IF n = 0 THEN 0 ELSE 1 + bit_length(n \div 2)

\* round(a / b) for positive a, b: nearest integer, ties to the even one
RoundDiv(a, b) ==
    LET fl == a \div b
        rem == a % b
    IN IF 2 * rem < b THEN fl
       ELSE IF 2 * rem > b THEN fl + 1
       ELSE IF fl % 2 = 0 THEN fl ELSE fl + 1

\* the try block of the page: "index" with the computed default index,
\* "fallback" when float() raises ValueError or TypeError (index 3), and
\* "ZeroDivisionError" when the stored value is zero, which is not caught
DefaultIdx(farfield, dropdown) ==
    IF dropdown.t = "str_float"
    THEN [kind |-> "index",
          idx |-> bit_length(RoundDiv(farfield * Pow2(dropdown.shift), dropdown.num)) - 1]
    ELSE IF dropdown = PyStr("0") THEN [kind |-> "ZeroDivisionError", idx |-> 0]
    ELSE [kind |-> "fallback", idx |-> 3]

\* st.selectbox accepts an index into its six options only
SelectboxAccepts(idx) == idx \in 0..MaxExponent

InitSettings ==
    /\ lines = <<>>
    /\ prefix = ""
    /\ \E dropdown \in LoadedDropdowns, number \in {PyNone, PyInt(6)} :
         call = [op |-> "__init__", custom |-> FALSE, farfield |-> 48, before |-> dropdown,
                 default_idx |-> [kind |-> "none", idx |-> 0],
                 settings |-> [farfieldzonesize |-> 0, zone_size_number |-> number,
                               predefined_zonesize |-> FALSE, zonesize_dropdown |-> dropdown]]
    /\ ret = Returned(PyNone)

\* one run of the page: the far-field input, the custom checkbox and, when
\* it is reached, the choice made in the selectbox
render_settings_page ==
    \E input \in FarfieldInputs, custom \in BOOLEAN, choice \in 0..MaxExponent :
        LET s == call.settings
            farfield == IF input = 0 THEN 48 ELSE input
            default_idx == DefaultIdx(farfield, s.zonesize_dropdown)
            shown == default_idx.kind # "ZeroDivisionError" /\ SelectboxAccepts(default_idx.idx)
        IN IF custom
           THEN /\ choice = 0
                /\ call' = [op |-> "render_settings_page", custom |-> TRUE, farfield |-> farfield,
                            before |-> s.zonesize_dropdown,
                            default_idx |-> [kind |-> "none", idx |-> 0],
                            settings |-> [farfieldzonesize |-> input,
                                          zone_size_number |-> PyInt(6),
                                          predefined_zonesize |-> s.predefined_zonesize,
                                          zonesize_dropdown |-> PyNone]]
                /\ ret' = Returned(PyNone)
                /\ UNCHANGED <<lines, prefix>>
           ELSE /\ ~shown => choice = 0
                /\ call' = [op |-> "render_settings_page", custom |-> FALSE, farfield |-> farfield,
                            before |-> s.zonesize_dropdown,
                            default_idx |-> default_idx,
                            settings |-> [farfieldzonesize |-> input,
                                          zone_size_number |-> PyNone,
                                          predefined_zonesize |-> TRUE,
                                          zonesize_dropdown |->
                                              IF shown THEN DropdownStr(farfield, choice)
                                              ELSE s.zonesize_dropdown]]
                /\ ret' = IF shown THEN Returned(PyNone) ELSE Raised
                /\ UNCHANGED <<lines, prefix>>

NextSettings == render_settings_page

SpecSettings == InitSettings /\ [][NextSettings]_vars

\* C30: with the custom-multiplier checkbox off, the default index of the
\* predefined zone-size selectbox is within 0..5 for every stored
\* zonesize_dropdown and far-field zone size and the page does not raise;
\* when the stored value is farfield / 2^i the index is i.
C30_DefaultIndexValid ==
    (call.op = "render_settings_page" /\ ~call.custom)
    => /\ ret # Raised
       /\ call.default_idx.kind \in {"index", "fallback"}
       /\ call.default_idx.idx \in 0..5
       /\ (call.before.t = "str_float" /\ call.before.num = call.farfield)
          => call.default_idx.idx = call.before.shift


(***************************************************************************)
(* Decoding a document as a state machine: a document of assignment lines  *)
(* for the entities 1 and 10 of an object prefix is drawn, decoded with    *)
(* one of the two decoders, a further line is inserted at some position,   *)
(* and the document is decoded again with the same decoder.  call.doc      *)
(* keeps what each line of the drawn document assigns.                     *)
(***************************************************************************)
\* longest document that is drawn
MaxDocLines == 2

DecodePrefixes == {"Domain", "step"}

\* the name token of the templates of an object prefix
NameToken(p) == "<" \o Lower(p) \o "_name>"

\* a section with the name token at the start and at the end of the key
DecodeSection(p) ==
    <<[key |-> NameToken(p) \o "_a", outputfile_name |-> NameToken(p) \o "_a",
       internal_name |-> "alpha"],
      [key |-> "a_" \o NameToken(p), outputfile_name |-> "a_" \o NameToken(p),
       internal_name |-> "beta"]>>

\* the assignment lines of a document: the key written with or without the
\* leading @, the value plain, quoted, or followed by a ';' comment
DocRecords(p) ==
    {[lead |-> "fish set @", key |-> p \o "1_a", value |-> "5",
      entity |-> p \o "1", field |-> "alpha"],
     [lead |-> "fish set @", key |-> p \o "10_a", value |-> "'7'",
      entity |-> p \o "10", field |-> "alpha"],
     [lead |-> "fish set ", key |-> "a_" \o p \o "10", value |-> "8; m",
      entity |-> p \o "10", field |-> "beta"]}

RenderRecord(r) == r.lead \o r.key \o " = " \o r.value

RenderDoc(doc) == [j \in 1..Len(doc) |-> RenderRecord(doc[j])]

\* a blank line, a comment or header that mentions an entity, and an
\* assignment to a variable no template resolves to
InsertedLines(p) == {"", "; " \o p \o "1 properties", "fish set @" \o p \o "7_zz = 1"}

\* ls with line as its new element number at + 1
InsertAt(ls, at, line) == SubSeq(ls, 1, at) \o <<line>> \o SubSeq(ls, at + 1, Len(ls))

InitDecode ==
    /\ prefix = ""
    /\ \E p \in DecodePrefixes :
         \E doc \in SeqsUpTo(DocRecords(p), MaxDocLines) :
           /\ lines = RenderDoc(doc)
           /\ call = [op |-> "input", object_prefix |-> p, ref_section |-> DecodeSection(p),
                      doc |-> doc, decoder |-> "", found |-> <<>>, plain |-> <<>>,
                      inserted |-> FALSE, line |-> "", before |-> RenderDoc(doc)]
    /\ ret = Returned(PyNone)

\* find_matching_objects(lines, object_prefix, ref_section)
ScanDocument ==
    /\ \/ call.op = "input"
       \/ call.op = "insert_line" /\ call.decoder = "find_matching_objects"
    /\ ret' = Returned(find_matching_objects(lines, call.object_prefix, call.ref_section))
    /\ call' = [call EXCEPT !.op = "find_matching_objects",
                            !.decoder = "find_matching_objects", !.found = ret'.v]
    /\ UNCHANGED <<lines, prefix>>

\* find_matching_objects_from_dict(lines, object_prefix, ref_section)
DictDocument ==
    /\ \/ call.op = "input"
       \/ call.op = "insert_line" /\ call.decoder = "find_matching_objects_from_dict"
    /\ ret' = Returned(find_matching_objects_from_dict(lines, call.object_prefix,
                                                       call.ref_section))
    /\ call' = [call EXCEPT !.op = "find_matching_objects_from_dict",
                            !.decoder = "find_matching_objects_from_dict", !.found = ret'.v]
    /\ UNCHANGED <<lines, prefix>>

\* the document is edited: one more line at any position
InsertLine ==
    /\ call.op \in {"find_matching_objects", "find_matching_objects_from_dict"}
    /\ ~call.inserted
    /\ \E line \in InsertedLines(call.object_prefix), at \in 0..Len(lines) :
         /\ lines' = InsertAt(lines, at, line)
         /\ call' = [call EXCEPT !.op = "insert_line", !.inserted = TRUE, !.line = line,
                                 !.before = lines, !.plain = call.found]
    /\ UNCHANGED <<prefix, ret>>

NextDecode ==
    \/ ScanDocument
    \/ DictDocument
    \/ InsertLine

SpecDecode == InitDecode /\ [][NextDecode]_vars

DocumentDecoded == call.op \in {"find_matching_objects", "find_matching_objects_from_dict"}

\* the record of the document that assigns the key last
IsLastForKey(doc, j) == \A k \in j + 1..Len(doc) : doc[k].key # doc[j].key

\* the value as the specification normalises it: cut at the first ';' or
\* ',', blanks stripped, one pair of surrounding quotes removed
NormalisedValue(v) ==
    LET cuts == {j \in 1..Len(v) : Char(v, j) \in {";", ","}}
        kept == Strip(IF cuts = {} THEN v ELSE SubSeq(v, 1, Least(cuts) - 1), Whitespace)
        quoted == Len(kept) >= 2 /\ Head(kept) \in {"'", "\""} /\ Char(kept, Len(kept)) = Head(kept)
    IN IF quoted THEN SubSeq(kept, 2, Len(kept) - 1) ELSE kept

\* C27: both decoders recover the value of a field normalised the same way:
\* the key is found with or without its leading '@', the quotes around the
\* value are removed, and what follows the first ';' or ',' is dropped.
C27_SameNormalisation ==
    (DocumentDecoded /\ ~call.inserted)
    => \A j \in 1..Len(call.doc) :
         IsLastForKey(call.doc, j)
         => \E k \in 1..Len(call.found) :
              /\ Lower(call.found[k]["name"]) = Lower(call.doc[j].entity)
              /\ call.doc[j].field \in DOMAIN call.found[k]
              /\ call.found[k][call.doc[j].field] = NormalisedValue(call.doc[j].value)

\* the number texts of the entities the documents and inserted lines name
IndexTexts == {"1", "7", "10"}

\* the line holds none of the keys the section resolves to
NoExpectedKey(line, p) ==
    \A n \in IndexTexts :
        /\ ~Contains(Lower(line), Lower(p \o n \o "_a"))
        /\ ~Contains(Lower(line), Lower("a_" \o p \o n))

\* C28: a line that matches none of the expected key patterns is skipped
\* without effect: inserted at any position of a document it changes
\* neither the entities returned nor a recovered value, and nothing raises.
C28_SkippedWithoutEffect ==
    (DocumentDecoded /\ call.inserted /\ NoExpectedKey(call.line, call.object_prefix))
    => call.found = call.plain /\ ret = Returned(call.plain)

\* C29: entities whose numbers share a decimal prefix are not confused by
\* either decoder: every value in the field map of an entity is taken from
\* a line whose key carries exactly that entity's identifier.
C29_NoPrefixConfusion ==
    DocumentDecoded
    => \A k \in 1..Len(call.found) :
         \A f \in DOMAIN call.found[k] \ {"name"} :
           \E j \in 1..Len(call.doc) :
             /\ Lower(call.doc[j].entity) = Lower(call.found[k]["name"])
             /\ call.doc[j].field = f
             /\ Contains(call.doc[j].value, call.found[k][f])

\* a document that assigns a field of entity 1 and one of entity 10, read by
\* the scanning decoder, which looks through the lines of entity 10 for
\* the keys of entity 1
C29_Witness ==
    /\ call.op = "find_matching_objects"
    /\ call.object_prefix = "Domain"
    /\ Len(call.doc) = 2
    /\ call.doc[1].key = "a_Domain10"
    /\ call.doc[2].key = "Domain1_a"
    /\ Len(call.found) = 2
    /\ call.found[1] = (("alpha" :> "5") @@ ("name" :> "Domain1"))
    /\ call.found[2] = (("beta" :> "8") @@ ("name" :> "Domain10"))
====
